---- MODULE Spec2Model ----
(***************************************************************************)
(* Ludo (arkits/ludo): the Convex game engine (convex/gameLogic.ts), the   *)
(* validators (convex/validators.ts) and the room mutations                *)
(* (convex/game.ts, convex/rooms.ts) as a state machine.                   *)
(*                                                                         *)
(* Arrays are 0-based in the source and 1-based here: players[i] of the    *)
(* source is players[i + 1], player.tokens[tokenId] is tokens[tokenId + 1].*)
(* room.currentPlayerIndex, token ids and positions keep their source      *)
(* values.                                                                 *)
(***************************************************************************)
EXTENDS Integers, Sequences, FiniteSets, TLC

\* ------------------------------------------------------------------------
\* Board layout constants (gameLogic.ts)
\* ------------------------------------------------------------------------
BOARD_SIZE == 52

HOME_COLUMN_SIZE == 6

SAFE_ZONES == {0, 8, 13, 21, 26, 34, 39, 47}

PlayerColor == {"red", "blue", "green", "yellow"}

START_POSITIONS == [c \in PlayerColor |->
    CASE c = "red" -> 0 [] c = "green" -> 13 [] c = "yellow" -> 26 [] c = "blue" -> 39]

HOME_ENTRY == [c \in PlayerColor |->
    CASE c = "red" -> 51 [] c = "green" -> 12 [] c = "yellow" -> 25 [] c = "blue" -> 38]

\* The null a function of the source returns instead of a position.
NULL == 0 - 100

\* The null / undefined player id (blockingPlayerId: null, winnerId: null,
\* an excludePlayerId that was not passed).
NoPlayer == "null"

\* rollDice(): Math.floor(Math.random() * 6) + 1
DiceValues == 1..6

\* initializeTokens(): four tokens, ids 0..3, all in the base
initializeTokens == [i \in 1..4 |->
    [id |-> i - 1, position |-> 0 - 1, isHome |-> TRUE, isFinished |-> FALSE]]

\* ------------------------------------------------------------------------
\* Move engine (gameLogic.ts)
\* ------------------------------------------------------------------------
\* calculateNewPosition that turns every colour into its home column after
\* square 51, the home entry of red
calculateNewPositionRedEntry(color, currentPosition, steps) ==
    IF currentPosition = 0 - 1
    THEN (IF steps = 6 THEN START_POSITIONS[color] ELSE NULL)
    ELSE IF currentPosition >= 52
    THEN (IF currentPosition + steps <= 57 THEN currentPosition + steps ELSE NULL)
    ELSE IF currentPosition + steps > 51
    THEN 52 + (currentPosition + steps - 52)
    ELSE currentPosition + steps

\* calculateNewPosition with the home column one square too near: the step
\* onto the first home square is not counted
calculateNewPositionEarlyHome(color, currentPosition, steps) ==
    IF currentPosition = 0 - 1
    THEN (IF steps = 6 THEN START_POSITIONS[color] ELSE NULL)
    ELSE IF currentPosition >= 52
    THEN (IF currentPosition + steps <= 57 THEN currentPosition + steps ELSE NULL)
    ELSE LET startPos == START_POSITIONS[color]
             distanceFromStart == (currentPosition - startPos + BOARD_SIZE) % BOARD_SIZE
             stepsIntoHome == distanceFromStart + steps - 51
         IN  IF distanceFromStart + steps > 51
             THEN (IF stepsIntoHome <= HOME_COLUMN_SIZE - 1 THEN 52 + stepsIntoHome
                   ELSE NULL)
             ELSE (currentPosition + steps) % BOARD_SIZE

calculateNewPosition(color, currentPosition, steps) ==
    IF currentPosition = 0 - 1
    THEN (IF steps = 6 THEN START_POSITIONS[color] ELSE NULL)
    ELSE IF currentPosition >= 52
    THEN LET homePosition == currentPosition - 52
             newHomePosition == homePosition + steps
         IN  IF newHomePosition = HOME_COLUMN_SIZE - 1 THEN 52 + newHomePosition
             ELSE IF newHomePosition < HOME_COLUMN_SIZE - 1 THEN 52 + newHomePosition
             ELSE NULL
    ELSE LET startPos == START_POSITIONS[color]
             homeEntry == HOME_ENTRY[color]
             distanceFromStart == (currentPosition - startPos + BOARD_SIZE) % BOARD_SIZE
             newDistanceFromStart == distanceFromStart + steps
             homeEntryDistance == (homeEntry - startPos + BOARD_SIZE) % BOARD_SIZE
             stepsIntoHome == newDistanceFromStart - homeEntryDistance - 1
         IN  IF newDistanceFromStart > homeEntryDistance
             THEN (IF stepsIntoHome = HOME_COLUMN_SIZE - 1 THEN 52 + stepsIntoHome
                   ELSE IF stepsIntoHome < HOME_COLUMN_SIZE - 1 THEN 52 + stepsIntoHome
                   ELSE NULL)
             ELSE (currentPosition + steps) % BOARD_SIZE

\* tokens of one player standing on a square:
\* player.tokens.filter(t => t.position === position && !t.isHome && !t.isFinished)
tokensAtPosition(player, position) ==
    SelectSeq(player.tokens,
              LAMBDA t : t.position = position /\ ~t.isHome /\ ~t.isFinished)

\* hasBlock: the first player in array order (the excluded one skipped) with
\* two or more tokens on a main-track square.
hasBlock(ps, position, excludePlayerId) ==
    LET blockers == {i \in 1..Len(ps) :
                        /\ ~(excludePlayerId # NoPlayer /\ ps[i].playerId = excludePlayerId)
                        /\ Len(tokensAtPosition(ps[i], position)) >= 2}
        first == CHOOSE i \in blockers : \A j \in blockers : i <= j
    IN  IF position < 0 \/ position >= 52 \/ blockers = {}
        THEN [hasBlock |-> FALSE, blockingPlayerId |-> NoPlayer]
        ELSE [hasBlock |-> TRUE, blockingPlayerId |-> ps[first].playerId]

\* isPathBlocked: the loop over i = 1..steps returns true at the first square
\* carrying a block of another player and stops at the break.
isPathBlocked(ps, player, fromPosition, toPosition) ==
    IF fromPosition < 0 \/ fromPosition >= 52 THEN FALSE
    ELSE LET steps == IF toPosition >= fromPosition
                      THEN toPosition - fromPosition
                      ELSE (52 - fromPosition) + toPosition
             checkPos(i) == (fromPosition + i) % 52
             breaks(i) == checkPos(i) = toPosition /\ toPosition >= 52
             blockedAt(i) == LET b == hasBlock(ps, checkPos(i), NoPlayer)
                             IN  b.hasBlock /\ b.blockingPlayerId # player.playerId
         IN  \E i \in 1..steps :
                /\ blockedAt(i)
                /\ \A j \in 1..i : ~breaks(j)

wouldJumpOwnTokenInHomeColumn(player, tokenId, fromPosition, toPosition) ==
    IF fromPosition < 52 \/ toPosition < 52 THEN FALSE
    ELSE LET fromHomePos == fromPosition - 52
             toHomePos == toPosition - 52
         IN  \E pos \in (fromHomePos + 1)..(toHomePos - 1) :
                \E k \in 1..Len(player.tokens) :
                    /\ player.tokens[k].id # tokenId
                    /\ player.tokens[k].position = 52 + pos
                    /\ ~player.tokens[k].isFinished

\* the ids of a sequence of tokens: tokens.map(t => t.id)
tokenIds(tokens) == [k \in 1..Len(tokens) |-> tokens[k].id]

\* the filter without the checks of another player's block on the way and on
\* the destination
boardTokenMovableOntoBlock(ps, player, diceValue, token) ==
    LET newPosition == calculateNewPosition(player.color, token.position, diceValue)
    IN  /\ newPosition # NULL
        /\ ~(/\ token.position >= 52 /\ newPosition >= 52
             /\ wouldJumpOwnTokenInHomeColumn(player, token.id, token.position, newPosition))
        /\ ~(/\ token.position < 52 /\ newPosition >= 52
             /\ wouldJumpOwnTokenInHomeColumn(player, token.id, 52 - 1, newPosition))

\* the per-token filter of the loop over boardTokens in getValidMoves
boardTokenMovable(ps, player, diceValue, token) ==
    LET newPosition == calculateNewPosition(player.color, token.position, diceValue)
        dest == hasBlock(ps, newPosition, NoPlayer)
    IN  /\ newPosition # NULL
        /\ ~(/\ token.position < 52 /\ newPosition < 52
             /\ isPathBlocked(ps, player, token.position, newPosition))
        /\ ~(/\ newPosition < 52
             /\ dest.hasBlock /\ dest.blockingPlayerId # player.playerId)
        /\ ~(/\ token.position >= 52 /\ newPosition >= 52
             /\ wouldJumpOwnTokenInHomeColumn(player, token.id, token.position, newPosition))
        /\ ~(/\ token.position < 52 /\ newPosition >= 52
             /\ wouldJumpOwnTokenInHomeColumn(player, token.id, 52 - 1, newPosition))

\* getValidMoves keeping the base tokens in behind any block, the player's
\* own included
getValidMovesOwnBlock(ps, player, diceValue) ==
    LET homeTokens == SelectSeq(player.tokens, LAMBDA t : t.isHome /\ ~t.isFinished)
        start == hasBlock(ps, START_POSITIONS[player.color], NoPlayer)
        fromBase == IF /\ diceValue = 6
                       /\ Len(homeTokens) > 0
                       /\ ~start.hasBlock
                    THEN tokenIds(homeTokens)
                    ELSE << >>
        boardTokens == SelectSeq(player.tokens, LAMBDA t : ~t.isHome /\ ~t.isFinished)
        onBoard == SelectSeq(boardTokens,
                             LAMBDA t : boardTokenMovable(ps, player, diceValue, t))
    IN  fromBase \o tokenIds(onBoard)

\* getValidMoves letting the base tokens out on any roll
getValidMovesAnyRoll(ps, player, diceValue) ==
    LET homeTokens == SelectSeq(player.tokens, LAMBDA t : t.isHome /\ ~t.isFinished)
        start == hasBlock(ps, START_POSITIONS[player.color], NoPlayer)
        fromBase == IF /\ Len(homeTokens) > 0
                       /\ (~start.hasBlock \/ start.blockingPlayerId = player.playerId)
                    THEN tokenIds(homeTokens)
                    ELSE << >>
        boardTokens == SelectSeq(player.tokens, LAMBDA t : ~t.isHome /\ ~t.isFinished)
        onBoard == SelectSeq(boardTokens,
                             LAMBDA t : boardTokenMovable(ps, player, diceValue, t))
    IN  fromBase \o tokenIds(onBoard)

\* getValidMoves: the base tokens first (on a 6, start square not blocked by
\* an opponent), then the movable board tokens, each in token order.
getValidMoves(ps, player, diceValue) ==
    LET homeTokens == SelectSeq(player.tokens, LAMBDA t : t.isHome /\ ~t.isFinished)
        start == hasBlock(ps, START_POSITIONS[player.color], NoPlayer)
        fromBase == IF /\ diceValue = 6
                       /\ Len(homeTokens) > 0
                       /\ (~start.hasBlock \/ start.blockingPlayerId = player.playerId)
                    THEN tokenIds(homeTokens)
                    ELSE << >>
        boardTokens == SelectSeq(player.tokens, LAMBDA t : ~t.isHome /\ ~t.isFinished)
        onBoard == SelectSeq(boardTokens,
                             LAMBDA t : boardTokenMovable(ps, player, diceValue, t))
    IN  fromBase \o tokenIds(onBoard)

\* validMoves.includes(tokenId)
includes(seq, x) == \E k \in 1..Len(seq) : seq[k] = x

\* checkCapture without the check of the safe zones
checkCaptureOnSafeZones(ps, movingPlayer, position) ==
    IF position >= 52 THEN ps
    ELSE IF hasBlock(ps, position, movingPlayer.playerId).hasBlock THEN ps
    ELSE [i \in 1..Len(ps) |->
            IF ps[i].playerId = movingPlayer.playerId THEN ps[i]
            ELSE [ps[i] EXCEPT !.tokens =
                    [k \in 1..Len(ps[i].tokens) |->
                        LET token == ps[i].tokens[k]
                        IN  IF token.position = position /\ ~token.isHome /\ ~token.isFinished
                            THEN [token EXCEPT !.position = 0 - 1, !.isHome = TRUE]
                            ELSE token]]]

\* checkCapture with the captured token's isHome left as it was
checkCaptureKeepsIsHome(ps, movingPlayer, position) ==
    IF position >= 52 THEN ps
    ELSE IF position \in SAFE_ZONES THEN ps
    ELSE IF hasBlock(ps, position, movingPlayer.playerId).hasBlock THEN ps
    ELSE [i \in 1..Len(ps) |->
            IF ps[i].playerId = movingPlayer.playerId THEN ps[i]
            ELSE [ps[i] EXCEPT !.tokens =
                    [k \in 1..Len(ps[i].tokens) |->
                        LET token == ps[i].tokens[k]
                        IN  IF token.position = position /\ ~token.isHome /\ ~token.isFinished
                            THEN [token EXCEPT !.position = 0 - 1]
                            ELSE token]]]

\* checkCapture that takes a single token of another player for a block
checkCaptureSingleIsBlock(ps, movingPlayer, position) ==
    IF position >= 52 THEN ps
    ELSE IF position \in SAFE_ZONES THEN ps
    ELSE IF \E i \in 1..Len(ps) : /\ ps[i].playerId # movingPlayer.playerId
                                  /\ Len(tokensAtPosition(ps[i], position)) >= 1
    THEN ps
    ELSE [i \in 1..Len(ps) |->
            IF ps[i].playerId = movingPlayer.playerId THEN ps[i]
            ELSE [ps[i] EXCEPT !.tokens =
                    [k \in 1..Len(ps[i].tokens) |->
                        LET token == ps[i].tokens[k]
                        IN  IF token.position = position /\ ~token.isHome /\ ~token.isFinished
                            THEN [token EXCEPT !.position = 0 - 1, !.isHome = TRUE]
                            ELSE token]]]

\* checkCapture: every token of every other player on the landing square goes
\* back to the base, unless the square is in a home column, is a safe zone or
\* carries a block of a player other than the mover.
checkCapture(ps, movingPlayer, position) ==
    IF position >= 52 THEN ps
    ELSE IF position \in SAFE_ZONES THEN ps
    ELSE IF hasBlock(ps, position, movingPlayer.playerId).hasBlock THEN ps
    ELSE [i \in 1..Len(ps) |->
            IF ps[i].playerId = movingPlayer.playerId THEN ps[i]
            ELSE [ps[i] EXCEPT !.tokens =
                    [k \in 1..Len(ps[i].tokens) |->
                        LET token == ps[i].tokens[k]
                        IN  IF token.position = position /\ ~token.isHome /\ ~token.isFinished
                            THEN [token EXCEPT !.position = 0 - 1, !.isHome = TRUE]
                            ELSE token]]]

\* the captured flag of moveToken: some other player has exactly one token on
\* the destination, a main-track square outside the safe zones
capturedFlag(ps, player, newPosition) ==
    /\ newPosition < 52
    /\ newPosition \notin SAFE_ZONES
    /\ \E i \in 1..Len(ps) :
          /\ ps[i].playerId # player.playerId
          /\ Len(tokensAtPosition(ps[i], newPosition)) = 1

\* the result moveToken returns for null
moveFailed(ps, player) ==
    [ok |-> FALSE, updatedPlayer |-> player, updatedPlayers |-> ps, captured |-> FALSE]

\* updateToken that leaves isFinished as it was
updateTokenKeepsFinished(tokens, tokenId, newPosition) ==
    [k \in 1..Len(tokens) |->
        IF tokens[k].id = tokenId
        THEN [tokens[k] EXCEPT !.position = newPosition,
                               !.isHome = FALSE]
        ELSE tokens[k]]

\* the token update of moveToken: position, isHome, isFinished of token tokenId
updateToken(tokens, tokenId, newPosition) ==
    [k \in 1..Len(tokens) |->
        IF tokens[k].id = tokenId
        THEN [tokens[k] EXCEPT !.position = newPosition,
                               !.isHome = FALSE,
                               !.isFinished = (newPosition = 57)]
        ELSE tokens[k]]

\* moveToken without the check against getValidMoves
moveTokenUnchecked(ps, player, tokenId, diceValue) ==
    IF tokenId + 1 \notin 1..Len(player.tokens) THEN moveFailed(ps, player)
    ELSE
    LET token == player.tokens[tokenId + 1]
        newPosition == IF token.isHome /\ diceValue = 6 THEN START_POSITIONS[player.color]
                       ELSE IF ~token.isHome
                       THEN calculateNewPosition(player.color, token.position, diceValue)
                       ELSE NULL
    IN  IF newPosition = NULL THEN moveFailed(ps, player)
        ELSE
        LET captured == capturedFlag(ps, player, newPosition)
            afterCapture == checkCapture(ps, player, newPosition)
            found == {i \in 1..Len(afterCapture) : afterCapture[i].playerId = player.playerId}
        IN  IF found = {} THEN moveFailed(ps, player)
            ELSE
            LET updatedPlayerBeforeMove ==
                    afterCapture[CHOOSE i \in found : \A j \in found : i <= j]
                updatedPlayer ==
                    [updatedPlayerBeforeMove EXCEPT !.tokens =
                        updateToken(updatedPlayerBeforeMove.tokens, tokenId, newPosition)]
            IN  [ok |-> TRUE,
                 updatedPlayer |-> updatedPlayer,
                 updatedPlayers |-> [i \in 1..Len(afterCapture) |->
                                        IF afterCapture[i].playerId = player.playerId
                                        THEN updatedPlayer ELSE afterCapture[i]],
                 captured |-> captured]

moveToken(ps, player, tokenId, diceValue) ==
    IF tokenId + 1 \notin 1..Len(player.tokens) THEN moveFailed(ps, player)
    ELSE IF ~includes(getValidMoves(ps, player, diceValue), tokenId)
    THEN moveFailed(ps, player)
    ELSE
    LET token == player.tokens[tokenId + 1]
        newPosition == IF token.isHome /\ diceValue = 6 THEN START_POSITIONS[player.color]
                       ELSE IF ~token.isHome
                       THEN calculateNewPosition(player.color, token.position, diceValue)
                       ELSE NULL
    IN  IF newPosition = NULL THEN moveFailed(ps, player)
        ELSE
        LET captured == capturedFlag(ps, player, newPosition)
            afterCapture == checkCapture(ps, player, newPosition)
            found == {i \in 1..Len(afterCapture) : afterCapture[i].playerId = player.playerId}
        IN  IF found = {} THEN moveFailed(ps, player)
            ELSE
            LET updatedPlayerBeforeMove ==
                    afterCapture[CHOOSE i \in found : \A j \in found : i <= j]
                updatedPlayer ==
                    [updatedPlayerBeforeMove EXCEPT !.tokens =
                        updateToken(updatedPlayerBeforeMove.tokens, tokenId, newPosition)]
            IN  [ok |-> TRUE,
                 updatedPlayer |-> updatedPlayer,
                 updatedPlayers |-> [i \in 1..Len(afterCapture) |->
                                        IF afterCapture[i].playerId = player.playerId
                                        THEN updatedPlayer ELSE afterCapture[i]],
                 captured |-> captured]

\* checkWin satisfied by three tokens: the fourth is not looked at
checkWinThreeTokens(player) == \A k \in 1..3 : player.tokens[k].isFinished

\* checkWin: player.tokens.every(token => token.isFinished)
checkWin(player) == \A k \in 1..Len(player.tokens) : player.tokens[k].isFinished

\* ------------------------------------------------------------------------
\* Bot policy (gameLogic.ts).  The source adds distanceFromStart / 2, a
\* fraction; every score here is twice the source's score, which keeps the
\* order of the scores and their ties.
\* ------------------------------------------------------------------------
\* botScore2 with 20 instead of 200 for finishing a token
botScore2LowFinish(ps, player, diceValue, tokenId) ==
    LET token == player.tokens[tokenId + 1]
        newPosition == IF token.isHome /\ diceValue = 6 THEN START_POSITIONS[player.color]
                       ELSE IF ~token.isHome /\ ~token.isFinished
                       THEN calculateNewPosition(player.color, token.position, diceValue)
                       ELSE NULL
        release == IF token.isHome /\ diceValue = 6 THEN 2 * 50 ELSE 0
        capture == IF capturedFlag(ps, player, newPosition) THEN 2 * 100 ELSE 0
        finish == IF newPosition = 57 THEN 2 * 20 ELSE 0
        progress == IF token.isHome THEN 0
                    ELSE IF token.position >= 52 THEN 2 * (30 + (token.position - 52) * 5)
                    ELSE (token.position - START_POSITIONS[player.color] + BOARD_SIZE)
                            % BOARD_SIZE
        safe == IF newPosition < 52 /\ newPosition \in SAFE_ZONES THEN 2 * 10 ELSE 0
    IN  IF newPosition = NULL THEN release
        ELSE release + capture + finish + progress + safe

\* botScore2 with 20 instead of 100 for a capture
botScore2LowCapture(ps, player, diceValue, tokenId) ==
    LET token == player.tokens[tokenId + 1]
        newPosition == IF token.isHome /\ diceValue = 6 THEN START_POSITIONS[player.color]
                       ELSE IF ~token.isHome /\ ~token.isFinished
                       THEN calculateNewPosition(player.color, token.position, diceValue)
                       ELSE NULL
        release == IF token.isHome /\ diceValue = 6 THEN 2 * 50 ELSE 0
        capture == IF capturedFlag(ps, player, newPosition) THEN 2 * 20 ELSE 0
        finish == IF newPosition = 57 THEN 2 * 200 ELSE 0
        progress == IF token.isHome THEN 0
                    ELSE IF token.position >= 52 THEN 2 * (30 + (token.position - 52) * 5)
                    ELSE (token.position - START_POSITIONS[player.color] + BOARD_SIZE)
                            % BOARD_SIZE
        safe == IF newPosition < 52 /\ newPosition \in SAFE_ZONES THEN 2 * 10 ELSE 0
    IN  IF newPosition = NULL THEN release
        ELSE release + capture + finish + progress + safe

botScore2(ps, player, diceValue, tokenId) ==
    LET token == player.tokens[tokenId + 1]
        newPosition == IF token.isHome /\ diceValue = 6 THEN START_POSITIONS[player.color]
                       ELSE IF ~token.isHome /\ ~token.isFinished
                       THEN calculateNewPosition(player.color, token.position, diceValue)
                       ELSE NULL
        release == IF token.isHome /\ diceValue = 6 THEN 2 * 50 ELSE 0
        capture == IF capturedFlag(ps, player, newPosition) THEN 2 * 100 ELSE 0
        finish == IF newPosition = 57 THEN 2 * 200 ELSE 0
        progress == IF token.isHome THEN 0
                    ELSE IF token.position >= 52 THEN 2 * (30 + (token.position - 52) * 5)
                    ELSE (token.position - START_POSITIONS[player.color] + BOARD_SIZE)
                            % BOARD_SIZE
        safe == IF newPosition < 52 /\ newPosition \in SAFE_ZONES THEN 2 * 10 ELSE 0
    IN  IF newPosition = NULL THEN release
        ELSE release + capture + finish + progress + safe

\* chooseBotMove with a sort that puts the last of the best-scored moves
\* first
chooseBotMoveLastBest(ps, player, diceValue) ==
    LET validMoves == getValidMoves(ps, player, diceValue)
        score(k) == botScore2(ps, player, diceValue, validMoves[k])
        best == CHOOSE k \in 1..Len(validMoves) :
                    /\ \A j \in 1..Len(validMoves) : score(j) <= score(k)
                    /\ \A j \in (k + 1)..Len(validMoves) : score(j) < score(k)
    IN  IF Len(validMoves) = 0 THEN NULL
        ELSE IF Len(validMoves) = 1 THEN validMoves[1]
        ELSE validMoves[best]

\* chooseBotMove: null without a valid move, the only move when there is one,
\* else the first of the best-scored moves (the sort is stable).
chooseBotMove(ps, player, diceValue) ==
    LET validMoves == getValidMoves(ps, player, diceValue)
        score(k) == botScore2(ps, player, diceValue, validMoves[k])
        best == CHOOSE k \in 1..Len(validMoves) :
                    /\ \A j \in 1..Len(validMoves) : score(j) <= score(k)
                    /\ \A j \in 1..(k - 1) : score(j) < score(k)
    IN  IF Len(validMoves) = 0 THEN NULL
        ELSE IF Len(validMoves) = 1 THEN validMoves[1]
        ELSE validMoves[best]

\* ------------------------------------------------------------------------
\* The client (src/utils/gameLogic.ts, boardPositions.ts): what the browser
\* offers before it sends a request
\* ------------------------------------------------------------------------
HOME_ENTRY_POSITIONS == [c \in PlayerColor |->
    CASE c = "red" -> 51 [] c = "green" -> 12 [] c = "yellow" -> 25 [] c = "blue" -> 38]

\* the client's calculateNewPosition
clientCalculateNewPosition(color, currentPosition, steps) ==
    IF currentPosition = 0 - 1
    THEN (IF steps = 6 THEN START_POSITIONS[color] ELSE NULL)
    ELSE IF currentPosition >= 52
    THEN LET homePosition == currentPosition - 52
             newHomePosition == homePosition + steps
         IN  IF newHomePosition <= HOME_COLUMN_SIZE - 1 THEN 52 + newHomePosition
             ELSE NULL
    ELSE LET startPos == START_POSITIONS[color]
             homeEntry == HOME_ENTRY_POSITIONS[color]
             distanceFromStart == (currentPosition - startPos + BOARD_SIZE) % BOARD_SIZE
             newDistanceFromStart == distanceFromStart + steps
             homeEntryDistance == (homeEntry - startPos + BOARD_SIZE) % BOARD_SIZE
             stepsIntoHome == newDistanceFromStart - homeEntryDistance - 1
         IN  IF newDistanceFromStart > homeEntryDistance
             THEN (IF stepsIntoHome <= HOME_COLUMN_SIZE - 1 THEN 52 + stepsIntoHome
                   ELSE NULL)
             ELSE (currentPosition + steps) % BOARD_SIZE

\* the client's getValidMoves without the moves that end exactly on 57
clientGetValidMovesShortOfFinish(player, diceValue) ==
    LET homeTokens == SelectSeq(player.tokens, LAMBDA t : t.isHome /\ ~t.isFinished)
        fromBase == IF diceValue = 6 /\ Len(homeTokens) > 0
                    THEN tokenIds(homeTokens)
                    ELSE << >>
        boardTokens == SelectSeq(player.tokens, LAMBDA t : ~t.isHome /\ ~t.isFinished)
        onBoard == SelectSeq(boardTokens,
                      LAMBDA t : /\ clientCalculateNewPosition(player.color, t.position,
                                                               diceValue) # NULL
                                 /\ clientCalculateNewPosition(player.color, t.position,
                                                               diceValue) # 57)
    IN  fromBase \o tokenIds(onBoard)

\* the client's getValidMoves(player, diceValue): the base tokens on a 6, then
\* the board tokens whose new position is not null
clientGetValidMoves(player, diceValue) ==
    LET homeTokens == SelectSeq(player.tokens, LAMBDA t : t.isHome /\ ~t.isFinished)
        fromBase == IF diceValue = 6 /\ Len(homeTokens) > 0
                    THEN tokenIds(homeTokens)
                    ELSE << >>
        boardTokens == SelectSeq(player.tokens, LAMBDA t : ~t.isHome /\ ~t.isFinished)
        onBoard == SelectSeq(boardTokens,
                      LAMBDA t : clientCalculateNewPosition(player.color, t.position,
                                                            diceValue) # NULL)
    IN  fromBase \o tokenIds(onBoard)

\* the client's canEndTurn(player, diceValue, hasRolledDice)
clientCanEndTurn(player, diceValue, hasRolledDice) ==
    IF ~hasRolledDice THEN FALSE
    ELSE IF diceValue = 6 THEN Len(clientGetValidMoves(player, diceValue)) = 0
    ELSE TRUE

\* ------------------------------------------------------------------------
\* Validators (validators.ts).  A result is [valid, error].
\* ------------------------------------------------------------------------
Valid == [valid |-> TRUE, error |-> ""]

Invalid(error) == [valid |-> FALSE, error |-> error]

\* players[room.currentPlayerIndex] is defined
hasCurrentPlayer(r, ps) == r.currentPlayerIndex + 1 \in 1..Len(ps)

\* !currentPlayer || currentPlayer.playerId !== playerId
notCurrentPlayer(r, ps, playerId) ==
    \/ ~hasCurrentPlayer(r, ps)
    \/ ps[r.currentPlayerIndex + 1].playerId # playerId

\* canRollDice without the check of gameState
canRollDiceAnyState(r, ps, playerId) ==
    IF notCurrentPlayer(r, ps, playerId) THEN Invalid("Not your turn")
    ELSE IF r.hasRolledDice THEN Invalid("You have already rolled the dice")
    ELSE Valid

canRollDice(r, ps, playerId) ==
    IF r.gameState # "playing" THEN Invalid("Game is not in progress")
    ELSE IF notCurrentPlayer(r, ps, playerId) THEN Invalid("Not your turn")
    ELSE IF r.hasRolledDice THEN Invalid("You have already rolled the dice")
    ELSE Valid

\* canMoveToken without the check of hasRolledDice
canMoveTokenUnrolled(r, ps, playerId, tokenId, diceValue) ==
    IF r.gameState # "playing" THEN Invalid("Game is not in progress")
    ELSE IF notCurrentPlayer(r, ps, playerId) THEN Invalid("Not your turn")
    ELSE IF r.diceValue # diceValue THEN Invalid("Invalid dice value")
    ELSE LET currentPlayer == ps[r.currentPlayerIndex + 1]
         IN  IF tokenId + 1 \notin 1..Len(currentPlayer.tokens) THEN Invalid("Invalid token")
             ELSE IF ~includes(getValidMoves(ps, currentPlayer, diceValue), tokenId)
             THEN Invalid("Invalid move")
             ELSE Valid

canMoveToken(r, ps, playerId, tokenId, diceValue) ==
    IF r.gameState # "playing" THEN Invalid("Game is not in progress")
    ELSE IF notCurrentPlayer(r, ps, playerId) THEN Invalid("Not your turn")
    ELSE IF ~r.hasRolledDice THEN Invalid("You must roll the dice first")
    ELSE IF r.diceValue # diceValue THEN Invalid("Invalid dice value")
    ELSE LET currentPlayer == ps[r.currentPlayerIndex + 1]
         IN  IF tokenId + 1 \notin 1..Len(currentPlayer.tokens) THEN Invalid("Invalid token")
             ELSE IF ~includes(getValidMoves(ps, currentPlayer, diceValue), tokenId)
             THEN Invalid("Invalid move")
             ELSE Valid

\* canEndTurn without the forced move on a 6
canEndTurnOnSix(r, ps, playerId) ==
    IF r.gameState # "playing" THEN Invalid("Game is not in progress")
    ELSE IF notCurrentPlayer(r, ps, playerId) THEN Invalid("Not your turn")
    ELSE IF ~r.hasRolledDice THEN Invalid("You must roll the dice first")
    ELSE Valid

\* canEndTurn without the check of the caller
canEndTurnAnyPlayer(r, ps, playerId) ==
    IF r.gameState # "playing" THEN Invalid("Game is not in progress")
    ELSE IF ~hasCurrentPlayer(r, ps) THEN Invalid("Not your turn")
    ELSE IF ~r.hasRolledDice THEN Invalid("You must roll the dice first")
    ELSE IF /\ r.diceValue = 6 /\ r.hasRolledDice
            /\ Len(getValidMoves(ps, ps[r.currentPlayerIndex + 1], r.diceValue)) > 0
    THEN Invalid("You must move a token when you roll 6")
    ELSE Valid

\* canEndTurn that refuses after any 6, with or without a valid move
canEndTurnNeverOnSix(r, ps, playerId) ==
    IF r.gameState # "playing" THEN Invalid("Game is not in progress")
    ELSE IF notCurrentPlayer(r, ps, playerId) THEN Invalid("Not your turn")
    ELSE IF ~r.hasRolledDice THEN Invalid("You must roll the dice first")
    ELSE IF r.diceValue = 6 /\ r.hasRolledDice
    THEN Invalid("You must move a token when you roll 6")
    ELSE Valid

canEndTurn(r, ps, playerId) ==
    IF r.gameState # "playing" THEN Invalid("Game is not in progress")
    ELSE IF notCurrentPlayer(r, ps, playerId) THEN Invalid("Not your turn")
    ELSE IF ~r.hasRolledDice THEN Invalid("You must roll the dice first")
    ELSE IF /\ r.diceValue = 6 /\ r.hasRolledDice
            /\ Len(getValidMoves(ps, ps[r.currentPlayerIndex + 1], r.diceValue)) > 0
    THEN Invalid("You must move a token when you roll 6")
    ELSE Valid

\* canStartGame without the lower bound on the number of players
canStartGameAlone(r, ps) ==
    IF r.gameState # "waiting" THEN Invalid("Game has already started")
    ELSE IF Len(ps) > 4 THEN Invalid("Maximum 4 players allowed")
    ELSE Valid

canStartGame(r, ps) ==
    IF r.gameState # "waiting" THEN Invalid("Game has already started")
    ELSE IF Len(ps) < 2 THEN Invalid("Need at least 2 players to start")
    ELSE IF Len(ps) > 4 THEN Invalid("Maximum 4 players allowed")
    ELSE Valid

\* ------------------------------------------------------------------------
\* Bounds of the model
\* ------------------------------------------------------------------------
\* accepted operations (those that change the room or the players) per run
MaxSteps == 3

\* ------------------------------------------------------------------------
\* State (the Convex tables "rooms" and "players", the scheduler)
\* ------------------------------------------------------------------------
VARIABLES
    room,           \* the room document: gameState, currentPlayerIndex, diceValue,
                    \* hasRolledDice, consecutiveSixes, lastMove, winnerId;
                    \* moveHistory is the optional field createRoom does not
                    \* set and no mutation patches, which readers take as []
    roomExists,     \* FALSE once leaveRoom has deleted the room document
    players,        \* the player documents of the room, sorted by playerIndex
    scheduled,      \* number of botPlay calls the scheduler still has to run
    response,       \* what the last mutation returned, and for which request
    rollAvailable,  \* history: a successful roll that no move, end of turn or
                    \* bust has used up
    inARow,         \* history: the rolls and the moves made since the turn last
                    \* passed on, and whether the last operation passed it on
    steps           \* accepted operations so far

vars == <<room, roomExists, players, scheduled, response, rollAvailable, inARow, steps>>

\* lastMove: null
NoMove == [playerId |-> NoPlayer, tokenId |-> 0 - 1, fromPosition |-> NULL,
           toPosition |-> NULL, captured |-> FALSE]

\* the value a mutation returns, with the mutation that returned it
Response(op, success, error, diceValue, thirdSix, captured) ==
    [op |-> op, success |-> success, error |-> error, diceValue |-> diceValue,
     thirdSix |-> thirdSix, captured |-> captured]

\* { success: false, error }
Failure(op, error) == Response(op, FALSE, error, 0, FALSE, FALSE)

\* the history at the start of a turn
NewTurn == [rolls |-> 0, moves |-> 0, over |-> FALSE]

\* the history after an operation that made the given numbers of rolls and
\* moves: the counts start again after an operation that passed the turn on,
\* and the turn passes on when currentPlayerIndex changes or the game ends
turnAfter(rolls, moves) ==
    [rolls |-> (IF inARow.over THEN 0 ELSE inARow.rolls) + rolls,
     moves |-> (IF inARow.over THEN 0 ELSE inARow.moves) + moves,
     over |-> (room'.gameState # "playing"
               \/ room'.currentPlayerIndex # room.currentPlayerIndex)]

\* the history after leaveRoom: the turn has passed on when the document at
\* currentPlayerIndex is no longer that of the same player
turnAfterLeave(remaining) ==
    [inARow EXCEPT !.over =
        \/ inARow.over
        \/ ~hasCurrentPlayer(room, remaining)
        \/ ~hasCurrentPlayer(room, players)
        \/ remaining[room.currentPlayerIndex + 1].playerId
              # players[room.currentPlayerIndex + 1].playerId]

\* a rejected request whose handler has cleared the roll before it returns
RejectedAfterWrite(op, error) ==
    /\ response' = Failure(op, error)
    /\ room' = [room EXCEPT !.hasRolledDice = FALSE]
    /\ UNCHANGED <<roomExists, players, scheduled, rollAvailable, inARow, steps>>

\* a rejected request: the handler returns before its first write
Rejected(op, error) ==
    /\ response' = Failure(op, error)
    /\ UNCHANGED <<room, roomExists, players, scheduled, rollAvailable, inARow, steps>>

\* nextPlayer && (nextPlayer.isBot ?? false): one more botPlay is scheduled
botFollowUp(ps, index) == IF index + 1 \in 1..Len(ps) /\ ps[index + 1].isBot THEN 1 ELSE 0

\* ------------------------------------------------------------------------
\* Room updates of the mutations (game.ts): the patches a handler applies to
\* the room document, as the value the document has when the handler returns
\* ------------------------------------------------------------------------
\* rollBust without the advance of currentPlayerIndex
rollBustSamePlayer(r, diceValue, nextPlayerIndex) ==
    [r EXCEPT !.diceValue = 0,
              !.hasRolledDice = FALSE,
              !.consecutiveSixes = 0]

\* rollDiceMutation, third consecutive 6: the patch {diceValue, hasRolledDice:
\* true, consecutiveSixes: 0, currentPlayerIndex} followed by the patch
\* {hasRolledDice: false, diceValue: 0}
rollBust(r, diceValue, nextPlayerIndex) ==
    [r EXCEPT !.diceValue = 0,
              !.hasRolledDice = FALSE,
              !.consecutiveSixes = 0,
              !.currentPlayerIndex = nextPlayerIndex]

\* rollPatch that does not store the rolled value
rollPatchKeepsDice(r, diceValue, consecutiveSixes) ==
    [r EXCEPT !.hasRolledDice = TRUE,
              !.consecutiveSixes = consecutiveSixes]

\* rollDiceMutation, any other roll
rollPatch(r, diceValue, consecutiveSixes) ==
    [r EXCEPT !.diceValue = diceValue,
              !.hasRolledDice = TRUE,
              !.consecutiveSixes = consecutiveSixes]

\* botPlay, third consecutive 6: the single patch {diceValue, hasRolledDice:
\* false, consecutiveSixes: 0, currentPlayerIndex}
botRollBust(r, diceValue, nextPlayerIndex) ==
    [r EXCEPT !.diceValue = diceValue,
              !.hasRolledDice = FALSE,
              !.consecutiveSixes = 0,
              !.currentPlayerIndex = nextPlayerIndex]

\* botPlay, any other roll
botRollPatch(r, diceValue, consecutiveSixes) ==
    [r EXCEPT !.diceValue = diceValue,
              !.hasRolledDice = TRUE,
              !.consecutiveSixes = consecutiveSixes]

\* sixesAfterRoll that starts the count again at every 6
sixesAfterRollForgetful(r, diceValue) ==
    IF diceValue = 6 THEN 1 ELSE 0

\* the consecutive-6 counter after a roll: +1 on a 6, else 0
sixesAfterRoll(r, diceValue) ==
    IF diceValue = 6 THEN r.consecutiveSixes + 1 ELSE 0

\* "Store last move": lastMove after a move of token tokenId by playerId
storeLastMove(r, currentPlayer, updatedPlayers, playerId, tokenId, captured) ==
    LET found == {i \in 1..Len(updatedPlayers) : updatedPlayers[i].playerId = playerId}
        movedPlayer == updatedPlayers[CHOOSE i \in found : \A j \in found : i <= j]
    IN  IF found = {} THEN r
        ELSE IF tokenId + 1 \notin 1..Len(movedPlayer.tokens) THEN r
        ELSE [r EXCEPT !.lastMove =
                [playerId |-> playerId,
                 tokenId |-> tokenId,
                 fromPosition |-> currentPlayer.tokens[tokenId + 1].position,
                 toPosition |-> movedPlayer.tokens[tokenId + 1].position,
                 captured |-> captured]]

\* result.updatedPlayers.find(p => checkWin(p)): its index here, 0 for none
winnerIndex(updatedPlayers) ==
    LET winners == {i \in 1..Len(updatedPlayers) : checkWin(updatedPlayers[i])}
    IN  IF winners = {} THEN 0 ELSE CHOOSE i \in winners : \A j \in winners : i <= j

\* winPatch without the winnerId
winPatchNoWinner(r, winnerId) ==
    [r EXCEPT !.gameState = "finished", !.consecutiveSixes = 0]

\* the patch {gameState: "finished", winnerId, consecutiveSixes: 0}
winPatch(r, winnerId) ==
    [r EXCEPT !.gameState = "finished", !.winnerId = winnerId, !.consecutiveSixes = 0]

\* extraTurnPatch that hands the turn on as after any other roll
extraTurnPatchAdvancing(r) ==
    [r EXCEPT !.currentPlayerIndex = r.currentPlayerIndex + 1,
              !.hasRolledDice = FALSE]

\* the patch {hasRolledDice: false} after a move made with a 6
extraTurnPatch(r) == [r EXCEPT !.hasRolledDice = FALSE]

\* advancePatch that leaves the dice value of the turn that ended
advancePatchKeepsDice(r, nextPlayerIndex) ==
    [r EXCEPT !.currentPlayerIndex = nextPlayerIndex,
              !.hasRolledDice = FALSE,
              !.consecutiveSixes = 0]

\* the patch {currentPlayerIndex, hasRolledDice: false, diceValue: 0,
\* consecutiveSixes: 0} that hands the turn on
advancePatch(r, nextPlayerIndex) ==
    [r EXCEPT !.currentPlayerIndex = nextPlayerIndex,
              !.hasRolledDice = FALSE,
              !.diceValue = 0,
              !.consecutiveSixes = 0]

\* moveTokenMutation after the players were written: win, extra turn or advance
roomAfterMove(r, updatedPlayers) ==
    LET w == winnerIndex(updatedPlayers)
    IN  IF w # 0 THEN winPatch(r, updatedPlayers[w].playerId)
        ELSE IF r.diceValue = 6 THEN extraTurnPatch(r)
        ELSE advancePatch(r, (r.currentPlayerIndex + 1) % Len(updatedPlayers))

\* botPlay after the players were written: win, extra turn or advance
botRoomAfterMove(r, updatedPlayers) ==
    LET w == winnerIndex(updatedPlayers)
    IN  IF w # 0 THEN winPatch(r, updatedPlayers[w].playerId)
        ELSE IF r.diceValue = 6 THEN extraTurnPatch(r)
        ELSE advancePatch(r, (r.currentPlayerIndex + 1) % Len(updatedPlayers))

\* scheduledAfterMove that schedules a botPlay for every extra turn, also
\* that of a human
scheduledAfterMoveAnyPlayer(r, ps, updatedPlayers) ==
    IF winnerIndex(updatedPlayers) # 0 THEN 0
    ELSE IF r.diceValue = 6 THEN 1
    ELSE botFollowUp(ps, (r.currentPlayerIndex + 1) % Len(updatedPlayers))

\* the botPlay calls moveTokenMutation schedules after a move
scheduledAfterMove(r, ps, updatedPlayers) ==
    IF winnerIndex(updatedPlayers) # 0 THEN 0
    ELSE IF r.diceValue = 6
    THEN (IF ps[r.currentPlayerIndex + 1].isBot THEN 1 ELSE 0)
    ELSE botFollowUp(ps, (r.currentPlayerIndex + 1) % Len(updatedPlayers))

\* the botPlay calls botPlay schedules after its move
botScheduledAfterMove(r, ps, updatedPlayers) ==
    IF winnerIndex(updatedPlayers) # 0 THEN 0
    ELSE IF r.diceValue = 6 THEN 1
    ELSE botFollowUp(ps, (r.currentPlayerIndex + 1) % Len(updatedPlayers))

\* ------------------------------------------------------------------------
\* Mutations (game.ts, rooms.ts).  Each runs as one transaction.
\* ------------------------------------------------------------------------
rollDiceMutation(playerId, diceValue) ==
    IF ~roomExists THEN Rejected("rollDice", "Room not found")
    ELSE LET validation == canRollDice(room, players, playerId)
             consecutiveSixes == sixesAfterRoll(room, diceValue)
             thirdSix == diceValue = 6 /\ consecutiveSixes >= 3
             nextPlayerIndex == (room.currentPlayerIndex + 1) % Len(players)
         IN  IF ~validation.valid
             THEN Rejected("rollDice", validation.error)
             ELSE /\ steps < MaxSteps
                  /\ steps' = steps + 1
                  /\ room' = IF thirdSix
                             THEN rollBust(room, diceValue, nextPlayerIndex)
                             ELSE rollPatch(room, diceValue, consecutiveSixes)
                  /\ scheduled' = IF thirdSix
                                  THEN scheduled + botFollowUp(players, nextPlayerIndex)
                                  ELSE scheduled
                  /\ rollAvailable' = ~thirdSix
                  /\ inARow' = turnAfter(1, 0)
                  /\ response' = Response("rollDice", TRUE, "",
                                          diceValue, thirdSix, FALSE)
                  /\ UNCHANGED <<roomExists, players>>

moveTokenMutation(playerId, tokenId) ==
    IF ~roomExists THEN Rejected("moveToken", "Room not found")
    ELSE LET validation == canMoveToken(room, players, playerId, tokenId, room.diceValue)
         IN  IF ~validation.valid
             THEN Rejected("moveToken", validation.error)
             ELSE IF ~hasCurrentPlayer(room, players)
             THEN Rejected("moveToken", "Current player not found")
             ELSE LET currentPlayer == players[room.currentPlayerIndex + 1]
                      result == moveToken(players, currentPlayer, tokenId, room.diceValue)
                  IN  IF ~result.ok
                      THEN Rejected("moveToken", "Failed to move token")
                      ELSE /\ steps < MaxSteps
                           /\ steps' = steps + 1
                           /\ players' = result.updatedPlayers
                           /\ room' = roomAfterMove(
                                        storeLastMove(room, currentPlayer,
                                                      result.updatedPlayers, playerId,
                                                      tokenId, result.captured),
                                        result.updatedPlayers)
                           /\ scheduled' = scheduled +
                                  scheduledAfterMove(room, players, result.updatedPlayers)
                           /\ rollAvailable' = FALSE
                           /\ inARow' = turnAfter(0, 1)
                           /\ response' = Response("moveToken", TRUE, "", 0, FALSE,
                                                   result.captured)
                           /\ UNCHANGED roomExists

endTurn(playerId) ==
    IF ~roomExists THEN Rejected("endTurn", "Room not found")
    ELSE LET validation == canEndTurn(room, players, playerId)
             nextPlayerIndex == (room.currentPlayerIndex + 1) % Len(players)
         IN  IF ~validation.valid
             THEN Rejected("endTurn", validation.error)
             ELSE /\ steps < MaxSteps
                  /\ steps' = steps + 1
                  /\ room' = advancePatch(room, nextPlayerIndex)
                  /\ scheduled' = scheduled + botFollowUp(players, nextPlayerIndex)
                  /\ rollAvailable' = FALSE
                  /\ inARow' = turnAfter(0, 0)
                  /\ response' = Response("endTurn", TRUE, "",
                                          0, FALSE, FALSE)
                  /\ UNCHANGED <<roomExists, players>>

\* botPlay returns null
BotPlayed == Response("botPlay", TRUE, "", 0, FALSE, FALSE)

\* botPlayReturns that schedules the next botPlay before it returns
botPlayReturnsRescheduling ==
    /\ scheduled' = scheduled - 1 + 1
    /\ response' = BotPlayed
    /\ UNCHANGED <<room, roomExists, players, rollAvailable, inARow, steps>>

\* botPlay returning before its first write: the trigger is used up
botPlayReturns ==
    /\ scheduled' = scheduled - 1
    /\ response' = BotPlayed
    /\ UNCHANGED <<room, roomExists, players, rollAvailable, inARow, steps>>

\* botPlay, the bot has not rolled: roll, and bust on the third 6
botPlayRoll(diceValue) ==
    LET consecutiveSixes == sixesAfterRoll(room, diceValue)
        thirdSix == diceValue = 6 /\ consecutiveSixes >= 3
        nextPlayerIndex == (room.currentPlayerIndex + 1) % Len(players)
    IN  /\ steps < MaxSteps
        /\ steps' = steps + 1
        /\ room' = IF thirdSix
                   THEN botRollBust(room, diceValue, nextPlayerIndex)
                   ELSE botRollPatch(room, diceValue, consecutiveSixes)
        /\ scheduled' = IF thirdSix
                        THEN scheduled - 1 + botFollowUp(players, nextPlayerIndex)
                        ELSE scheduled - 1 + 1
        /\ rollAvailable' = ~thirdSix
        /\ inARow' = turnAfter(1, 0)
        /\ response' = BotPlayed
        /\ UNCHANGED <<roomExists, players>>

\* botPlay, the bot has rolled: end the turn without a valid move, else make
\* the move chooseBotMove picks
botPlayMove ==
    LET currentPlayer == players[room.currentPlayerIndex + 1]
        validMoves == getValidMoves(players, currentPlayer, room.diceValue)
        nextPlayerIndex == (room.currentPlayerIndex + 1) % Len(players)
    IN  IF Len(validMoves) = 0
        THEN /\ steps < MaxSteps
             /\ steps' = steps + 1
             /\ room' = advancePatch(room, nextPlayerIndex)
             /\ scheduled' = scheduled - 1 + botFollowUp(players, nextPlayerIndex)
             /\ rollAvailable' = FALSE
             /\ inARow' = turnAfter(0, 0)
             /\ response' = BotPlayed
             /\ UNCHANGED <<roomExists, players>>
        ELSE \E tokenId \in {chooseBotMove(players, currentPlayer, room.diceValue)} :
             IF tokenId = NULL THEN botPlayReturns
             ELSE \E result \in {moveToken(players, currentPlayer, tokenId, room.diceValue)} :
                  IF ~result.ok THEN botPlayReturns
                  ELSE /\ steps < MaxSteps
                       /\ steps' = steps + 1
                       /\ players' = result.updatedPlayers
                       /\ room' = botRoomAfterMove(
                                    storeLastMove(room, currentPlayer, result.updatedPlayers,
                                                  currentPlayer.playerId, tokenId,
                                                  result.captured),
                                    result.updatedPlayers)
                       /\ scheduled' = scheduled - 1 +
                              botScheduledAfterMove(room, players, result.updatedPlayers)
                       /\ rollAvailable' = FALSE
                       /\ inARow' = turnAfter(0, 1)
                       /\ response' = BotPlayed
                       /\ UNCHANGED roomExists

\* botPlay: one scheduled call runs
botPlay(diceValue) ==
    /\ scheduled > 0
    /\ IF ~roomExists THEN botPlayReturns
       ELSE IF room.gameState # "playing" THEN botPlayReturns
       ELSE IF ~hasCurrentPlayer(room, players) THEN botPlayReturns
       ELSE IF ~players[room.currentPlayerIndex + 1].isBot THEN botPlayReturns
       ELSE IF ~room.hasRolledDice THEN botPlayRoll(diceValue)
       ELSE botPlayMove

\* the patch startGame applies to the room
startPatch(r) ==
    [r EXCEPT !.gameState = "playing",
              !.currentPlayerIndex = 0,
              !.hasRolledDice = FALSE,
              !.diceValue = 0,
              !.consecutiveSixes = 0]

startGame(playerId) ==
    IF ~roomExists THEN Rejected("startGame", "Room not found")
    ELSE IF Len(players) = 0 \/ players[1].playerId # playerId
    THEN Rejected("startGame", "Only room creator can start the game")
    ELSE LET validation == canStartGame(room, players)
         IN  IF ~validation.valid
             THEN Rejected("startGame", validation.error)
             ELSE /\ steps < MaxSteps
                  /\ steps' = steps + 1
                  /\ players' = [i \in 1..Len(players) |->
                                    [players[i] EXCEPT !.tokens = initializeTokens]]
                  /\ room' = startPatch(room)
                  /\ scheduled' = scheduled + (IF players[1].isBot THEN 1 ELSE 0)
                  /\ response' = Response("startGame", TRUE, "",
                                          0, FALSE, FALSE)
                  /\ inARow' = NewTurn
                  /\ UNCHANGED <<roomExists, rollAvailable>>

\* the players left when playerId's document is deleted
remainingPlayers(ps, playerId) == SelectSeq(ps, LAMBDA p : p.playerId # playerId)

\* leaveRoom: delete the player, and the room with its last player
leaveRoom(playerId) ==
    /\ response' = Response("leaveRoom", TRUE, "", 0, FALSE, FALSE)
    /\ IF remainingPlayers(players, playerId) = players
       THEN UNCHANGED <<room, roomExists, players, scheduled, rollAvailable, inARow, steps>>
       ELSE /\ steps < MaxSteps
            /\ steps' = steps + 1
            /\ players' = remainingPlayers(players, playerId)
            /\ roomExists' = (roomExists /\ Len(players') # 0)
            /\ inARow' = turnAfterLeave(players')
            /\ UNCHANGED <<room, scheduled, rollAvailable>>

\* ------------------------------------------------------------------------
\* Initial states: a room in which the players have joined (rooms.ts
\* createRoom, joinRoom, addBot), and positions later in a game.  Every
\* position is one a game started by startGame reaches; the comment of each
\* says how.
\* ------------------------------------------------------------------------
Token(id, position) ==
    [id |-> id, position |-> position,
     isHome |-> (position = 0 - 1), isFinished |-> (position = 57)]

Tokens(a, b, c, d) == <<Token(0, a), Token(1, b), Token(2, c), Token(3, d)>>

Player(playerId, color, isBot, tokens) ==
    [playerId |-> playerId, color |-> color, isBot |-> isBot, tokens |-> tokens]

Room(gameState, currentPlayerIndex, diceValue, hasRolledDice, consecutiveSixes, lastMove) ==
    [gameState |-> gameState, currentPlayerIndex |-> currentPlayerIndex,
     diceValue |-> diceValue, hasRolledDice |-> hasRolledDice,
     consecutiveSixes |-> consecutiveSixes, lastMove |-> lastMove,
     winnerId |-> NoPlayer, moveHistory |-> <<>>]

Move(playerId, tokenId, fromPosition, toPosition) ==
    [playerId |-> playerId, tokenId |-> tokenId, fromPosition |-> fromPosition,
     toPosition |-> toPosition, captured |-> FALSE]

InBase == Tokens(0 - 1, 0 - 1, 0 - 1, 0 - 1)

\* createRoom by p1, addBot: the lobby of a human host and a bot
Lobby ==
    [room |-> Room("waiting", 0, 0, FALSE, 0, NoMove),
     players |-> <<Player("p1", "red", FALSE, << >>), Player("b1", "blue", TRUE, << >>)>>,
     scheduled |-> 0]

\* p1 rolled 6 twice and brought out two tokens
HumanTwoSixes ==
    [room |-> Room("playing", 0, 6, FALSE, 2, Move("p1", 1, 0 - 1, 0)),
     players |-> <<Player("p1", "red", FALSE, Tokens(0, 0, 0 - 1, 0 - 1)),
                   Player("b1", "blue", TRUE, InBase)>>,
     scheduled |-> 0]

\* p1 passed, then the bot rolled 6 twice and brought out two tokens; its
\* next roll is scheduled
BotTwoSixes ==
    [room |-> Room("playing", 1, 6, FALSE, 2, Move("b1", 1, 0 - 1, 39)),
     players |-> <<Player("p1", "red", FALSE, InBase),
                   Player("b1", "blue", TRUE, Tokens(39, 39, 0 - 1, 0 - 1))>>,
     scheduled |-> 1]

\* an endgame of three players: p1 and the bot each need one exact roll; the
\* turn is p1's after a move of the bot, or the bot's after a move of p2
EndGame(current) ==
    [room |-> Room("playing", current, 0, FALSE, 0,
                   IF current = 0 THEN Move("b1", 3, 9, 12) ELSE Move("p2", 2, 27, 30)),
     players |-> <<Player("p1", "red", FALSE, Tokens(57, 57, 57, 55)),
                   Player("p2", "blue", FALSE, Tokens(57, 0 - 1, 30, 0 - 1)),
                   Player("b1", "green", TRUE, Tokens(57, 57, 57, 12))>>,
     scheduled |-> IF current = 2 THEN 1 ELSE 0]

\* a middle game: p1 has a block on 10 and single tokens on 16 and 22; the
\* bot has tokens on 7 and 20 and one on the safe square 21
MiddleGame(current) ==
    [room |-> Room("playing", current, 0, FALSE, 0,
                   IF current = 0 THEN Move("b1", 0, 4, 7) ELSE Move("p1", 3, 19, 22)),
     players |-> <<Player("p1", "red", FALSE, Tokens(10, 10, 16, 22)),
                   Player("b1", "blue", TRUE, Tokens(7, 20, 21, 0 - 1))>>,
     scheduled |-> IF current = 1 THEN 1 ELSE 0]

\* p1 is about to turn into its home column past a block of p2 on 50, with a
\* token of its own on the second home-column square
HomeStretch ==
    [room |-> Room("playing", 0, 0, FALSE, 0, Move("p2", 2, 42, 45)),
     players |-> <<Player("p1", "red", FALSE, Tokens(48, 53, 57, 0 - 1)),
                   Player("p2", "blue", FALSE, Tokens(50, 50, 45, 0 - 1))>>,
     scheduled |-> 0]

Scenarios ==
    {Lobby, HumanTwoSixes, BotTwoSixes, EndGame(0), EndGame(2),
     MiddleGame(0), MiddleGame(1), HomeStretch}

\* the player ids requests carry
PlayerIds == {"p1", "p2", "b1"}

\* the token ids requests carry; 4 is not a token
TokenIdInputs == 0..4

NoResponse == Response("none", TRUE, "", 0, FALSE, FALSE)

Init ==
    \E sc \in Scenarios :
        /\ room = sc.room
        /\ players = sc.players
        /\ scheduled = sc.scheduled
        /\ roomExists = TRUE
        /\ response = NoResponse
        /\ rollAvailable = FALSE
        /\ inARow = [rolls |-> sc.room.consecutiveSixes,
                     moves |-> sc.room.consecutiveSixes, over |-> FALSE]
        /\ steps = 0

Next ==
    \/ \E playerId \in PlayerIds, diceValue \in DiceValues :
          rollDiceMutation(playerId, diceValue)
    \/ \E playerId \in PlayerIds, tokenId \in TokenIdInputs :
          moveTokenMutation(playerId, tokenId)
    \/ \E playerId \in PlayerIds : endTurn(playerId)
    \/ \E diceValue \in DiceValues : botPlay(diceValue)
    \/ \E playerId \in PlayerIds : startGame(playerId)
    \/ \E playerId \in PlayerIds : leaveRoom(playerId)

Spec == Init /\ [][Next]_vars

\* the game without leaveRoom: the room keeps the players it started with
NextPlay ==
    \/ \E playerId \in PlayerIds, diceValue \in DiceValues :
          rollDiceMutation(playerId, diceValue)
    \/ \E playerId \in PlayerIds, tokenId \in TokenIdInputs :
          moveTokenMutation(playerId, tokenId)
    \/ \E playerId \in PlayerIds : endTurn(playerId)
    \/ \E diceValue \in DiceValues : botPlay(diceValue)
    \/ \E playerId \in PlayerIds : startGame(playerId)

SpecPlay == Init /\ [][NextPlay]_vars

\* the game played by its clients: every request carries the id of a human
\* player of the room, and the bots are moved by botPlay alone
HumanIds == {"p1", "p2"}

NextHumans ==
    \/ \E playerId \in HumanIds, diceValue \in DiceValues :
          rollDiceMutation(playerId, diceValue)
    \/ \E playerId \in HumanIds, tokenId \in TokenIdInputs :
          moveTokenMutation(playerId, tokenId)
    \/ \E playerId \in HumanIds : endTurn(playerId)
    \/ \E diceValue \in DiceValues : botPlay(diceValue)
    \/ \E playerId \in HumanIds : startGame(playerId)

SpecHumans == Init /\ [][NextHumans]_vars

\* the bot's second token has just joined its first on square 0, the start
\* square of red; p1 has two tokens in the base and two finished.  The turn
\* is p1's, or it is the bot's again after p1 rolled and passed.
StartBlocked(current) ==
    [room |-> Room("playing", current, 0, FALSE, 0,
                   Move("b1", 1, 49, 0)),
     players |-> <<Player("p1", "red", FALSE, Tokens(0 - 1, 0 - 1, 57, 57)),
                   Player("b1", "blue", TRUE, Tokens(0, 0, 45, 0 - 1))>>,
     scheduled |-> IF current = 1 THEN 1 ELSE 0]

InitStart ==
    \E sc \in {StartBlocked(0), StartBlocked(1)} :
        /\ room = sc.room
        /\ players = sc.players
        /\ scheduled = sc.scheduled
        /\ roomExists = TRUE
        /\ response = NoResponse
        /\ rollAvailable = FALSE
        /\ inARow = NewTurn
        /\ steps = 0

SpecStart == InitStart /\ [][Next]_vars

\* ------------------------------------------------------------------------
\* The move engine on its own: moveToken applied once to a roster, for the
\* player and the roll the room names.  The rosters are those of three
\* players in the middle of a game: two tokens of red, two of blue and one
\* of green on the squares of EnginePositions, the others in the base or
\* finished.  Outside the safe zones a track square holds the tokens of one
\* player only, as in every game: a token that lands on another player's
\* single token sends it to the base, and cannot land on a block.  For the
\* same reason no square carries the blocks of two players: neither a move
\* nor a token leaving the base lands on a square with another player's
\* block.
\* ------------------------------------------------------------------------
EnginePositions == {0 - 1, 2, 4, 8, 50, 53}

\* the track squares outside the safe zones hold tokens of one player only
oneOwnerPerSquare(ps) ==
    \A i, j \in 1..Len(ps) : \A k \in 1..4, l \in 1..4 :
        (/\ i # j
         /\ ps[i].tokens[k].position = ps[j].tokens[l].position
         /\ ps[i].tokens[k].position \in 0..51)
        => ps[i].tokens[k].position \in SAFE_ZONES

\* no track square carries blocks of two players
oneBlockPerSquare(ps) ==
    \A i, j \in 1..Len(ps) : \A k \in 1..4 :
        (/\ i # j
         /\ ps[i].tokens[k].position \in 0..51
         /\ Len(tokensAtPosition(ps[i], ps[i].tokens[k].position)) >= 2)
        => Len(tokensAtPosition(ps[j], ps[i].tokens[k].position)) < 2

EngineRosters ==
    {ps \in {<<Player("p1", "red", FALSE, Tokens(a1, a2, 0 - 1, 57)),
               Player("p2", "blue", FALSE, Tokens(b1, b2, 0 - 1, 0 - 1)),
               Player("b1", "green", TRUE, Tokens(c1, 0 - 1, 57, 57))>> :
                 a1 \in EnginePositions, a2 \in EnginePositions,
                 b1 \in EnginePositions, b2 \in EnginePositions,
                 c1 \in EnginePositions} :
        oneOwnerPerSquare(ps) /\ oneBlockPerSquare(ps)}

InitEngine ==
    /\ players \in EngineRosters
    /\ \E current \in 0..2, diceValue \in DiceValues :
          room = Room("playing", current, diceValue, TRUE, 0, NoMove)
    /\ roomExists = TRUE
    /\ scheduled = 0
    /\ response = NoResponse
    /\ rollAvailable = TRUE
    /\ inARow = [rolls |-> IF room.hasRolledDice THEN 1 ELSE 0, moves |-> 0,
                 over |-> FALSE]
    /\ steps = 0

\* moveToken(players, players[currentPlayerIndex], tokenId, diceValue), its
\* result written the way moveTokenMutation writes it
applyMoveToken(tokenId) ==
    LET currentPlayer == players[room.currentPlayerIndex + 1]
    IN  /\ steps = 0
        /\ steps' = 1
        /\ \E result \in {moveToken(players, currentPlayer, tokenId, room.diceValue)} :
              IF ~result.ok
              THEN /\ response' = Failure("moveToken", "Failed to move token")
                   /\ UNCHANGED <<room, players, inARow>>
              ELSE /\ players' = result.updatedPlayers
                   /\ room' = storeLastMove(room, currentPlayer, result.updatedPlayers,
                                            currentPlayer.playerId, tokenId,
                                            result.captured)
                   /\ response' = Response("moveToken", TRUE, "", 0, FALSE,
                                           result.captured)
                   /\ inARow' = turnAfter(0, 1)
        /\ UNCHANGED <<roomExists, scheduled, rollAvailable>>

\* the rosters around the start squares: two tokens of each of the three
\* players in the base or on a start square
StartSquares == {0 - 1, 0, 13, 39}

LeaveBaseRosters ==
    {ps \in {<<Player("p1", "red", FALSE, Tokens(a1, a2, 0 - 1, 0 - 1)),
               Player("p2", "blue", FALSE, Tokens(b1, b2, 0 - 1, 57)),
               Player("b1", "green", TRUE, Tokens(c1, c2, 0 - 1, 0 - 1))>> :
                 a1 \in StartSquares, a2 \in StartSquares,
                 b1 \in StartSquares, b2 \in StartSquares,
                 c1 \in StartSquares, c2 \in StartSquares} :
        oneBlockPerSquare(ps)}

InitLeaveBase ==
    /\ players \in LeaveBaseRosters
    /\ \E current \in 0..2, diceValue \in DiceValues :
          room = Room("playing", current, diceValue, TRUE, 0, NoMove)
    /\ roomExists = TRUE
    /\ scheduled = 0
    /\ response = NoResponse
    /\ rollAvailable = TRUE
    /\ inARow = [rolls |-> IF room.hasRolledDice THEN 1 ELSE 0, moves |-> 0,
                 over |-> FALSE]
    /\ steps = 0

NextEngine == \E tokenId \in TokenIdInputs : applyMoveToken(tokenId)

SpecEngine == InitEngine /\ [][NextEngine]_vars

SpecLeaveBase == InitLeaveBase /\ [][NextEngine]_vars

\* ------------------------------------------------------------------------
\* The bot at the end of its lap: a room of the human p1 (red) and the bot
\* b1 (blue, start 39, home entry 38) in which the bot has rolled and its
\* botPlay is scheduled.  Three tokens of the bot are in the base, on the
\* track squares 32 and 38 or in its home column; two tokens of red are in
\* the base or on 36 and 38, where the bot can capture them.  The rosters
\* obey the rules of the engine rosters above.
\* ------------------------------------------------------------------------
BotPositions == {0 - 1, 32, 38, 53, 55}

OpponentPositions == {0 - 1, 36, 38}

BotRosters ==
    {ps \in {<<Player("p1", "red", FALSE, Tokens(r1, r2, 0 - 1, 57)),
               Player("b1", "blue", TRUE, Tokens(x1, x2, x3, 0 - 1))>> :
                 r1 \in OpponentPositions, r2 \in OpponentPositions,
                 x1 \in BotPositions, x2 \in BotPositions, x3 \in BotPositions} :
        oneOwnerPerSquare(ps) /\ oneBlockPerSquare(ps)}

InitBot ==
    /\ players \in BotRosters
    /\ \E diceValue \in DiceValues :
          room = Room("playing", 1, diceValue, TRUE,
                      IF diceValue = 6 THEN 1 ELSE 0, NoMove)
    /\ roomExists = TRUE
    /\ scheduled = 1
    /\ response = NoResponse
    /\ rollAvailable = TRUE
    /\ inARow = [rolls |-> IF room.hasRolledDice THEN 1 ELSE 0, moves |-> 0,
                 over |-> FALSE]
    /\ steps = 0

NextBot == \E diceValue \in DiceValues : botPlay(diceValue)

SpecBot == InitBot /\ [][NextBot]_vars

\* ------------------------------------------------------------------------
\* A trigger delivered twice: the rooms of the bot above at the start of a
\* step of the bot, before its roll or after it, with two deliveries of the
\* one botPlay scheduled for that step pending.  botPlay takes the room id
\* only, so the two deliveries run the same handler; the second is due at
\* the same time as the first, before any botPlay the first schedules 800
\* or 1000 ms ahead.
\* ------------------------------------------------------------------------
InitDuplicate ==
    /\ players \in BotRosters
    /\ \/ room = Room("playing", 1, 0, FALSE, 0, NoMove)
       \/ \E diceValue \in DiceValues :
             room = Room("playing", 1, diceValue, TRUE,
                         IF diceValue = 6 THEN 1 ELSE 0, NoMove)
    /\ roomExists = TRUE
    /\ scheduled = 2
    /\ response = NoResponse
    /\ rollAvailable = TRUE
    /\ inARow = [rolls |-> IF room.hasRolledDice THEN 1 ELSE 0, moves |-> 0,
                 over |-> FALSE]
    /\ steps = 0

SpecDuplicate == InitDuplicate /\ [][NextBot]_vars

\* ------------------------------------------------------------------------
\* One token anywhere: a full room of four players, red, blue, green and
\* yellow in the order assignColors gives them, in which the player to move
\* has one token on any square from the base to the last home square and
\* every other token is in the base.  moveToken is applied once.
\* ------------------------------------------------------------------------
AllPositions == (0 - 1)..56

FourPlayers(current, position) ==
    [i \in 1..4 |->
        Player(<<"p1", "p2", "p3", "p4">>[i],
               <<"red", "blue", "green", "yellow">>[i],
               FALSE,
               IF i = current + 1 THEN Tokens(position, 0 - 1, 0 - 1, 0 - 1) ELSE InBase)]

InitPosition ==
    /\ \E current \in 0..3, position \in AllPositions, diceValue \in DiceValues :
          /\ players = FourPlayers(current, position)
          /\ room = Room("playing", current, diceValue, TRUE, 0, NoMove)
    /\ roomExists = TRUE
    /\ scheduled = 0
    /\ response = NoResponse
    /\ rollAvailable = TRUE
    /\ inARow = [rolls |-> IF room.hasRolledDice THEN 1 ELSE 0, moves |-> 0,
                 over |-> FALSE]
    /\ steps = 0

SpecPosition == InitPosition /\ [][NextEngine]_vars

\* the two sets of rosters together: moves along the track and out of the base
InitBlocks == InitEngine \/ InitLeaveBase

SpecBlocks == InitBlocks /\ [][NextEngine]_vars

\* ------------------------------------------------------------------------
\* Steps and states the properties speak about
\* ------------------------------------------------------------------------
\* the step is an accepted call of the mutation op
Accepted(op) == steps' = steps + 1 /\ response'.op = op

\* a token move applied by moveTokenMutation, by botPlay, by either
HumanMoveStep == Accepted("moveToken")

BotMoveStep == Accepted("botPlay") /\ room.hasRolledDice /\ players' # players

MoveStep == HumanMoveStep \/ BotMoveStep

\* a dice roll accepted by rollDiceMutation, made by botPlay
HumanRollStep == Accepted("rollDice")

BotRollStep == Accepted("botPlay") /\ ~room.hasRolledDice

Playing == roomExists /\ room.gameState = "playing"

Finished == roomExists /\ room.gameState = "finished"

\* the player whose turn it is, before the step
currentIndex == room.currentPlayerIndex + 1

currentPlayerId ==
    IF hasCurrentPlayer(room, players) THEN players[currentIndex].playerId ELSE NoPlayer

allAt57(player) ==
    /\ Len(player.tokens) = 4
    /\ \A k \in 1..4 : player.tokens[k].position = 57

\* the tokens of every player still in the room are as before the step
TokensUnchanged ==
    \A i \in 1..Len(players), j \in 1..Len(players') :
        players[i].playerId = players'[j].playerId => players[i].tokens = players'[j].tokens

\* ------------------------------------------------------------------------
\* C1  Win detection: a move (moveTokenMutation or the move of botPlay) that
\* puts the mover's fourth token on 57 sets gameState to finished and
\* winnerId to the mover in the same step and leaves currentPlayerIndex.
\* ------------------------------------------------------------------------
C1_WinDetection ==
    [][(MoveStep /\ ~allAt57(players[currentIndex]) /\ allAt57(players'[currentIndex]))
        => /\ room'.gameState = "finished"
           /\ room'.winnerId = players[currentIndex].playerId
           /\ room'.currentPlayerIndex = room.currentPlayerIndex]_vars

\* p1 has just won by a move of its own
C1_Witness ==
    /\ Finished
    /\ response.op = "moveToken" /\ response.success
    /\ room.winnerId = "p1"
    /\ \E i \in 1..Len(players) : players[i].playerId = "p1" /\ allAt57(players[i])

\* ------------------------------------------------------------------------
\* C2  Finished is terminal: in a finished room every roll, move and end-turn
\* request is rejected with "Game is not in progress", a botPlay returns
\* without effect, and the room document and the tokens never change.
\* ------------------------------------------------------------------------
C2_FinishedIsTerminal ==
    [][Finished
        => /\ response'.op \in {"rollDice", "moveToken", "endTurn"}
                => response' = Failure(response'.op, "Game is not in progress")
           /\ room' = room
           /\ TokensUnchanged
           /\ response'.op = "botPlay" => players' = players /\ steps' = steps]_vars

\* a roll was refused in a finished room
C2_Witness ==
    /\ Finished
    /\ response = Failure("rollDice", "Game is not in progress")

\* ------------------------------------------------------------------------
\* C3  Turn ownership: while the game is playing, a roll, move or end-turn
\* request of a player other than players[currentPlayerIndex] is rejected
\* with "Not your turn" and changes nothing; a step that changes the room
\* document or a token is a request of the current player or a botPlay for
\* a current bot.
\* ------------------------------------------------------------------------
NotYourTurn(op) ==
    /\ response' = Failure(op, "Not your turn")
    /\ UNCHANGED <<room, players, scheduled>>

C3_TurnOwnership ==
    [][Playing
        => /\ \A p \in PlayerIds :
                p # currentPlayerId
                => /\ (\E d \in DiceValues : rollDiceMutation(p, d)) => NotYourTurn("rollDice")
                   /\ (\E t \in TokenIdInputs : moveTokenMutation(p, t))
                          => NotYourTurn("moveToken")
                   /\ endTurn(p) => NotYourTurn("endTurn")
           /\ (room' # room \/ ~TokensUnchanged)
                => \/ /\ response'.op \in {"rollDice", "moveToken", "endTurn"}
                      /\ \/ \E d \in DiceValues : rollDiceMutation(currentPlayerId, d)
                         \/ \E t \in TokenIdInputs : moveTokenMutation(currentPlayerId, t)
                         \/ endTurn(currentPlayerId)
                   \/ /\ response'.op = "botPlay"
                      /\ hasCurrentPlayer(room, players)
                      /\ players[currentIndex].isBot]_vars

\* a request of p2 was refused while it was p1's turn
C3_Witness ==
    /\ Playing
    /\ currentPlayerId = "p1"
    /\ \E i \in 1..Len(players) : players[i].playerId = "p2"
    /\ response = Failure("moveToken", "Not your turn")

\* ------------------------------------------------------------------------
\* C4  One move per roll: every applied token move (moveTokenMutation or the
\* move of botPlay) uses a successful roll that no earlier move, end of turn
\* or bust has used up; a move request made after a move was applied and
\* before the next roll is rejected and changes neither the room document,
\* the tokens nor the scheduled bot calls.  The rejection is "You must roll
\* the dice first", "Not your turn" or, when the applied move won the game,
\* "Game is not in progress".
\* ------------------------------------------------------------------------
\* a move was applied and no roll has been accepted since
MoveApplied == roomExists /\ room.lastMove # NoMove /\ ~rollAvailable

\* the step is a move request rejected with one of errors, nothing written
MoveRejectedWith(errors) ==
    /\ \E e \in errors : response' = Failure("moveToken", e)
    /\ UNCHANGED <<room, players, scheduled>>

C4_OneMovePerRoll ==
    [][/\ MoveStep => rollAvailable
       /\ (MoveApplied /\ response'.op = "moveToken")
            => MoveRejectedWith({"You must roll the dice first", "Not your turn",
                                 "Game is not in progress"})]_vars

\* p1 captured with its move, and its second move request was refused
C4_Witness ==
    /\ Playing
    /\ room.lastMove.playerId = "p1" /\ room.lastMove.captured
    /\ ~rollAvailable
    /\ response = Failure("moveToken", "Not your turn")

\* C4 as stated: the rejection is must-roll-first or not-your-turn
C4_AsStated ==
    [][/\ MoveStep => rollAvailable
       /\ (MoveApplied /\ response'.op = "moveToken")
            => MoveRejectedWith({"You must roll the dice first", "Not your turn"})]_vars

\* ------------------------------------------------------------------------
\* C5  Capture: when moveToken lands a token on a main-track square outside
\* SAFE_ZONES on which exactly one token of the other players stands, that
\* token has position -1 and isHome true in the returned roster and the
\* returned captured flag is true; captured is true exactly when the move
\* sent some token of another player to the base.
\* ------------------------------------------------------------------------
\* the tokens <<player, token>> of the other players standing on a square
\* before the step
opponentTokensAt(position) ==
    {it \in (1..Len(players)) \X (1..4) :
        /\ it[1] # currentIndex
        /\ players[it[1]].tokens[it[2]].position = position
        /\ ~players[it[1]].tokens[it[2]].isHome
        /\ ~players[it[1]].tokens[it[2]].isFinished}

\* the tokens of the other players the step sent to the base
sentToBase ==
    {it \in (1..Len(players)) \X (1..4) :
        /\ it[1] # currentIndex
        /\ players[it[1]].tokens[it[2]].position # 0 - 1
        /\ players'[it[1]].tokens[it[2]].position = 0 - 1}

C5_Capture ==
    [][(Accepted("moveToken") /\ response'.success)
        => LET landing == room'.lastMove.toPosition
           IN  /\ (/\ landing \in 0..51
                    /\ landing \notin SAFE_ZONES
                    /\ Cardinality(opponentTokensAt(landing)) = 1)
                   => /\ \A it \in opponentTokensAt(landing) :
                            /\ players'[it[1]].tokens[it[2]].position = 0 - 1
                            /\ players'[it[1]].tokens[it[2]].isHome
                      /\ response'.captured
               /\ response'.captured <=> sentToBase # {}]_vars

\* red moved from 2 to 4, where a token of blue stood, and captured it
C5_Witness ==
    /\ response.op = "moveToken" /\ response.success /\ response.captured
    /\ room.lastMove.playerId = "p1"
    /\ room.lastMove.fromPosition = 2 /\ room.lastMove.toPosition = 4
    /\ players[2].tokens[1].position = 0 - 1 /\ players[2].tokens[1].isHome
    /\ players[2].tokens[2].position = 8

\* ------------------------------------------------------------------------
\* C6  Capture immunity: in every step, a token whose position changes to -1
\* stood on a main-track square outside SAFE_ZONES, was the only token of
\* its owner on that square, and the square is the destination of a move
\* another player made in that step.  So no token on a safe zone, in a home
\* column, finished or part of a block goes back to the base.
\* ------------------------------------------------------------------------
C6_CaptureImmunity ==
    [][\A i \in 1..Len(players), j \in 1..Len(players') :
         \A k \in 1..Len(players[i].tokens) :
            (/\ players[i].playerId = players'[j].playerId
             /\ k \in 1..Len(players'[j].tokens)
             /\ players[i].tokens[k].position # 0 - 1
             /\ players'[j].tokens[k].position = 0 - 1)
            => LET square == players[i].tokens[k].position
               IN  /\ square \in 0..51
                   /\ square \notin SAFE_ZONES
                   /\ Len(tokensAtPosition(players[i], square)) = 1
                   /\ MoveStep
                   /\ room'.lastMove.toPosition = square
                   /\ room'.lastMove.playerId # players[i].playerId]_vars

\* red moved onto 20 and sent the bot's token 1 to the base; the bot's token
\* on the safe square 21 stays
C6_Witness ==
    /\ room.lastMove.playerId = "p1" /\ room.lastMove.toPosition = 20
    /\ room.lastMove.captured
    /\ players[2].playerId = "b1"
    /\ players[2].tokens[2].position = 0 - 1
    /\ players[2].tokens[3].position = 21

\* ------------------------------------------------------------------------
\* C7  Blocks are a hard obstacle: for every token id getValidMoves returns,
\* no main-track square the token lands on or passes through on the move
\* (the squares after its own up to the destination, those before it turns
\* into its home column included) carries two or more tokens of another
\* player.
\* ------------------------------------------------------------------------
\* the main-track squares a token passes through or lands on with a roll
trackSquaresOfMove(player, token, diceValue) ==
    IF token.position = 0 - 1
    THEN (IF diceValue = 6 THEN {START_POSITIONS[player.color]} ELSE {})
    ELSE IF token.position >= 52 THEN {}
    ELSE LET startPos == START_POSITIONS[player.color]
             distanceFromStart == (token.position - startPos + BOARD_SIZE) % BOARD_SIZE
             homeEntryDistance == (HOME_ENTRY[player.color] - startPos + BOARD_SIZE)
                                      % BOARD_SIZE
         IN  {(token.position + n) % BOARD_SIZE :
                 n \in {m \in 1..diceValue : distanceFromStart + m <= homeEntryDistance}}

\* a player other than ps[i] has two or more tokens on the square
opponentBlockOn(ps, i, square) ==
    \E j \in 1..Len(ps) : j # i /\ Len(tokensAtPosition(ps[j], square)) >= 2

C7_BlocksAreHardObstacle ==
    Playing =>
        \A i \in 1..Len(players), diceValue \in DiceValues :
            LET validMoves == getValidMoves(players, players[i], diceValue)
            IN  \A k \in 1..Len(validMoves) :
                    \A square \in trackSquaresOfMove(players[i],
                                                     players[i].tokens[validMoves[k] + 1],
                                                     diceValue) :
                        ~opponentBlockOn(players, i, square)

\* ------------------------------------------------------------------------
\* C8  Three-sixes bust: a roll of 6 by the current player after two
\* consecutive sixes (rollDiceMutation, or the roll of botPlay) advances
\* currentPlayerIndex to (i + 1) mod players.length in the same step,
\* changes no token and sets consecutiveSixes to 0; the roll cannot be used
\* for a move: hasRolledDice is false after it, every move request is
\* rejected, and a move is applied only after a roll that was no bust.
\* ------------------------------------------------------------------------
\* the step is the third consecutive 6 of the current player
HumanBustStep == HumanRollStep /\ response'.diceValue = 6 /\ room.consecutiveSixes = 2

BotBustStep == BotRollStep /\ room'.diceValue = 6 /\ room.consecutiveSixes = 2

BustStep == HumanBustStep \/ BotBustStep

C8_ThreeSixesBust ==
    [][/\ BustStep
          => /\ room'.currentPlayerIndex = (room.currentPlayerIndex + 1) % Len(players)
             /\ players' = players
             /\ room'.consecutiveSixes = 0
             /\ ~room'.hasRolledDice
             /\ \A p \in PlayerIds, t \in TokenIdInputs :
                   ~canMoveToken(room', players', p, t, 6).valid
       /\ MoveStep => room.hasRolledDice /\ rollAvailable]_vars

\* p1 rolled its third 6: the turn went to the bot and no token moved
C8_Witness ==
    /\ Playing
    /\ response.op = "rollDice" /\ response.success /\ response.thirdSix
    /\ response.diceValue = 6
    /\ room.currentPlayerIndex = 1 /\ room.consecutiveSixes = 0
    /\ players[1].tokens = Tokens(0, 0, 0 - 1, 0 - 1)

\* ------------------------------------------------------------------------
\* C9  After a three-sixes bust, by rollDiceMutation or by botPlay, the room
\* handed to the next player has diceValue = 0 and hasRolledDice = false.
\* ------------------------------------------------------------------------
C9_BustResetsDice ==
    [][BustStep => room'.diceValue = 0 /\ ~room'.hasRolledDice]_vars

\* ------------------------------------------------------------------------
\* C10  Extra turn on 6: after a move made with diceValue 6 that does not
\* win the game (moveTokenMutation or the move of botPlay),
\* currentPlayerIndex is unchanged and hasRolledDice is false, and
\* canRollDice accepts the mover and nobody else.
\* ------------------------------------------------------------------------
C10_ExtraTurnOnSix ==
    [][(MoveStep /\ room.diceValue = 6 /\ room'.gameState # "finished")
        => /\ room'.currentPlayerIndex = room.currentPlayerIndex
           /\ ~room'.hasRolledDice
           /\ \A p \in PlayerIds :
                 canRollDice(room', players', p).valid
                    <=> p = players[currentIndex].playerId]_vars

\* p1 moved with a 6 and has the turn again, the dice not rolled
C10_Witness ==
    /\ Playing
    /\ response.op = "moveToken" /\ response.success
    /\ room.lastMove.playerId = "p1" /\ currentPlayerId = "p1"
    /\ room.diceValue = 6 /\ room.consecutiveSixes = 1
    /\ ~room.hasRolledDice

\* ------------------------------------------------------------------------
\* C11  Turn advance: a non-winning move made with a dice value other than 6
\* (moveTokenMutation or botPlay), an accepted endTurn and a botPlay that
\* finds no valid move set currentPlayerIndex to (i + 1) mod players.length
\* and reset hasRolledDice to false, diceValue to 0 and consecutiveSixes to
\* 0; while the game is playing no step changes currentPlayerIndex to
\* anything but (i + 1) mod players.length, so no player is skipped.
\* ------------------------------------------------------------------------
\* botPlay ended the bot's turn for want of a valid move
BotPassStep == Accepted("botPlay") /\ room.hasRolledDice /\ players' = players

\* the steps that hand the turn on
AdvanceStep ==
    \/ MoveStep /\ room.diceValue # 6 /\ room'.gameState # "finished"
    \/ Accepted("endTurn")
    \/ BotPassStep

C11_TurnAdvance ==
    [][/\ AdvanceStep
          => /\ room'.currentPlayerIndex = (room.currentPlayerIndex + 1) % Len(players)
             /\ ~room'.hasRolledDice
             /\ room'.diceValue = 0
             /\ room'.consecutiveSixes = 0
       /\ (Playing /\ room'.currentPlayerIndex # room.currentPlayerIndex)
          => room'.currentPlayerIndex = (room.currentPlayerIndex + 1) % Len(players)]_vars

\* p1 moved with a roll other than 6 and the turn went to the next player
C11_Witness ==
    /\ Playing
    /\ response.op = "moveToken" /\ response.success
    /\ room.lastMove.playerId = "p1"
    /\ room.currentPlayerIndex = 1
    /\ room.diceValue = 0 /\ ~room.hasRolledDice /\ room.consecutiveSixes = 0

\* ------------------------------------------------------------------------
\* C12  Forced move on 6: canEndTurn, and with it the endTurn mutation, is
\* accepted exactly when the game is playing, the caller is the current
\* player, the dice have been rolled, and it is not the case that diceValue
\* is 6 with getValidMoves non-empty; with a 6 and a legal move the request
\* of the current player is rejected with "You must move a token when you
\* roll 6" and the room and the players stay as they are.
\* ------------------------------------------------------------------------
\* the current player rolled a 6 and has a legal move
MustMoveOnSix ==
    /\ room.diceValue = 6
    /\ Len(getValidMoves(players, players[currentIndex], room.diceValue)) > 0

EndTurnAllowed(p) ==
    /\ room.gameState = "playing"
    /\ currentPlayerId = p
    /\ room.hasRolledDice
    /\ ~MustMoveOnSix

C12_ForcedMoveOnSix ==
    [][roomExists
        => \A p \in PlayerIds :
              /\ canEndTurn(room, players, p).valid <=> EndTurnAllowed(p)
              /\ endTurn(p)
                   => /\ response'.success <=> EndTurnAllowed(p)
                      /\ ~EndTurnAllowed(p) => UNCHANGED <<room, players, scheduled>>
                      /\ (/\ room.gameState = "playing" /\ currentPlayerId = p
                          /\ room.hasRolledDice /\ MustMoveOnSix)
                         => response' = Failure("endTurn",
                                                "You must move a token when you roll 6")]_vars

\* p1 rolled a 6, can move, and its request to end the turn was refused
C12_Witness ==
    /\ Playing
    /\ currentPlayerId = "p1"
    /\ room.hasRolledDice /\ room.diceValue = 6
    /\ response = Failure("endTurn", "You must move a token when you roll 6")

\* ------------------------------------------------------------------------
\* C13  Round trip between getValidMoves and moveToken: for every roster,
\* current player and dice value 1..6, moveToken succeeds for every token id
\* in getValidMoves(players, player, dice) and fails for every other token
\* id, the id 4 of no token included; a failed call returns the roster as it
\* was.
\* ------------------------------------------------------------------------
\* token id t is in getValidMoves for the current player and the roll
isValidMove(t) ==
    LET validMoves == getValidMoves(players, players[currentIndex], room.diceValue)
    IN  \E k \in 1..Len(validMoves) : validMoves[k] = t

C13_RoundTrip ==
    (hasCurrentPlayer(room, players) /\ room.diceValue \in DiceValues)
    => \A t \in TokenIdInputs :
          LET result == moveToken(players, players[currentIndex], t, room.diceValue)
          IN  /\ result.ok <=> isValidMove(t)
              /\ ~result.ok => result.updatedPlayers = players
              /\ result.ok => result.updatedPlayers # players

\* green's token went from 8 to the first square of its home column with a 5
C13_Witness ==
    /\ steps = 1
    /\ response.op = "moveToken" /\ response.success
    /\ room.lastMove.playerId = "b1" /\ room.diceValue = 5
    /\ room.lastMove.fromPosition = 8 /\ room.lastMove.toPosition = 52

\* ------------------------------------------------------------------------
\* C14  getValidMoves returns only ids in {0,1,2,3} of tokens the player
\* owns that are not finished, each id at most once, and for a dice value
\* other than 6 no token that is in the base.
\* ------------------------------------------------------------------------
C14_ValidMovesAreTokens ==
    (hasCurrentPlayer(room, players) /\ room.diceValue \in DiceValues)
    => LET player == players[currentIndex]
           validMoves == getValidMoves(players, player, room.diceValue)
       IN  /\ \A k \in 1..Len(validMoves) :
                /\ validMoves[k] \in 0..3
                /\ \E n \in 1..Len(player.tokens) :
                      /\ player.tokens[n].id = validMoves[k]
                      /\ ~player.tokens[n].isFinished
                      /\ player.tokens[n].position # 57
                      /\ room.diceValue # 6
                            => ~player.tokens[n].isHome /\ player.tokens[n].position # 0 - 1
           /\ \A k, l \in 1..Len(validMoves) : validMoves[k] = validMoves[l] => k = l

\* blue, with two tokens in the base, moved a token with a 2 and has a
\* valid move with that value again
C14_Witness ==
    /\ steps = 1
    /\ response.op = "moveToken" /\ response.success
    /\ room.lastMove.playerId = "p2" /\ room.diceValue = 2
    /\ Len(getValidMoves(players, players[currentIndex], room.diceValue)) >= 1

\* ------------------------------------------------------------------------
\* C15  Leaving base: on a roll of 6 every token in the base is in
\* getValidMoves exactly when no other player has a block on the player's
\* start square START_POSITIONS[color] (a block of its own does not keep
\* them in); moveToken on such a token puts it on START_POSITIONS[color]
\* with isHome false; on any other roll no token in the base is in
\* getValidMoves and moveToken fails for it.
\* ------------------------------------------------------------------------
C15_LeavingBase ==
    (hasCurrentPlayer(room, players) /\ room.diceValue \in DiceValues)
    => LET player == players[currentIndex]
           startPos == START_POSITIONS[player.color]
           validMoves == getValidMoves(players, player, room.diceValue)
       IN  \A n \in 1..Len(player.tokens) :
              player.tokens[n].position = 0 - 1
              => LET result == moveToken(players, player, player.tokens[n].id,
                                         room.diceValue)
                 IN  /\ room.diceValue = 6
                        => /\ includes(validMoves, player.tokens[n].id)
                              <=> ~opponentBlockOn(players, currentIndex, startPos)
                           /\ result.ok
                              => /\ result.updatedPlayers[currentIndex].tokens[n].position
                                       = startPos
                                 /\ ~result.updatedPlayers[currentIndex].tokens[n].isHome
                                 /\ result.updatedPlayer.tokens[n].position = startPos
                                 /\ ~result.updatedPlayer.tokens[n].isHome
                     /\ room.diceValue # 6
                        => /\ ~includes(validMoves, player.tokens[n].id)
                           /\ ~result.ok

\* red, with a block of its own on its start square 0, brought a third
\* token out of the base
C15_Witness ==
    /\ steps = 1
    /\ response.op = "moveToken" /\ response.success
    /\ room.lastMove.playerId = "p1"
    /\ room.lastMove.fromPosition = 0 - 1 /\ room.lastMove.toPosition = 0
    /\ Len(tokensAtPosition(players[1], 0)) = 3

\* ------------------------------------------------------------------------
\* C16  No jumping own tokens in the home column: getValidMoves returns no
\* token whose move, inside the home column or from the main track into
\* it, passes over a home-column square strictly between origin and
\* destination on which another unfinished token of the same player stands.
\* ------------------------------------------------------------------------
\* the home-column squares strictly between the origin and the destination
homeSquaresPassed(fromPosition, toPosition) ==
    IF toPosition < 52 THEN {}
    ELSE IF fromPosition >= 52 THEN (fromPosition + 1)..(toPosition - 1)
    ELSE 52..(toPosition - 1)

\* another unfinished token of the player stands on the square
ownTokenOn(player, tokenId, square) ==
    \E n \in 1..Len(player.tokens) :
        /\ player.tokens[n].id # tokenId
        /\ player.tokens[n].position = square
        /\ ~player.tokens[n].isFinished

C16_NoJumpInHomeColumn ==
    Playing =>
        \A i \in 1..Len(players), diceValue \in DiceValues :
            LET validMoves == getValidMoves(players, players[i], diceValue)
            IN  \A k \in 1..Len(validMoves) :
                    LET token == players[i].tokens[validMoves[k] + 1]
                        newPosition == calculateNewPosition(players[i].color,
                                                            token.position, diceValue)
                    IN  (token.position >= 0 /\ newPosition # NULL)
                        => \A square \in homeSquaresPassed(token.position, newPosition) :
                              ~ownTokenOn(players[i], token.id, square)

\* ------------------------------------------------------------------------
\* C17  Token encoding: in every state every token has its position in
\* {-1} \cup 0..57, isHome true exactly when the position is -1, isFinished
\* true exactly when the position is 57, and never both flags true.
\* ------------------------------------------------------------------------
C17_TokenEncoding ==
    \A i \in 1..Len(players) : \A k \in 1..Len(players[i].tokens) :
        LET token == players[i].tokens[k]
        IN  /\ token.position \in {0 - 1} \cup 0..57
            /\ token.isHome <=> token.position = 0 - 1
            /\ token.isFinished <=> token.position = 57
            /\ ~(token.isHome /\ token.isFinished)

\* the game was started from the lobby, p1 rolled a 6 and brought its
\* first token out
C17_Witness ==
    /\ Playing /\ steps = 3
    /\ response.op = "moveToken" /\ response.success
    /\ room.lastMove.fromPosition = 0 - 1 /\ room.lastMove.toPosition = 0
    /\ players[1].tokens = Tokens(0, 0 - 1, 0 - 1, 0 - 1)
    /\ players[2].tokens = InBase

\* ------------------------------------------------------------------------
\* C18  In every state of a room whose game is playing, currentPlayerIndex
\* is less than players.length: it indexes a player of the room, also after
\* a player has left the room during play.
\* ------------------------------------------------------------------------
C18_CurrentPlayerExists ==
    Playing => room.currentPlayerIndex < Len(players)

\* ------------------------------------------------------------------------
\* C19  No partial mutation on rejection: a rejected roll, move or end-turn
\* request leaves the room document, the players with their tokens and the
\* scheduled bot calls unchanged, and the same request on the state it
\* leaves is rejected by the validator with the same error.
\* ------------------------------------------------------------------------
\* the step wrote nothing, and validation on the state it leaves fails with
\* the error the step returned
RejectedAgain(validation) ==
    /\ UNCHANGED <<room, roomExists, players, scheduled>>
    /\ ~validation.valid
    /\ validation.error = response'.error

\* the step is a rejection returned by the mutation op
RejectionOf(op) == response'.op = op /\ ~response'.success

C19_NoPartialMutation ==
    [][roomExists
        => /\ RejectionOf("rollDice")
              => \A p \in PlayerIds, d \in DiceValues :
                    rollDiceMutation(p, d)
                    => RejectedAgain(canRollDice(room', players', p))
           /\ RejectionOf("moveToken")
              => \A p \in PlayerIds, t \in TokenIdInputs :
                    moveTokenMutation(p, t)
                    => RejectedAgain(canMoveToken(room', players', p, t, room'.diceValue))
           /\ RejectionOf("endTurn")
              => \A p \in PlayerIds :
                    endTurn(p) => RejectedAgain(canEndTurn(room', players', p))]_vars

\* p1 rolled and asked for a move that is not among its valid moves
C19_Witness ==
    /\ Playing
    /\ currentPlayerId = "p1"
    /\ room.hasRolledDice
    /\ response = Failure("moveToken", "Invalid move")

\* ------------------------------------------------------------------------
\* C20  consecutiveSixes is the number of 6s the current player has rolled
\* in a row in its turn-sequence: between operations it is 0, 1 or 2; a roll
\* of 6 adds one, and the third 6 (the bust), any other roll, an end of
\* turn and a win set it to 0; it is 0 whenever the turn comes to another
\* player.
\* ------------------------------------------------------------------------
\* the counter after a roll: one more on a 6 short of the third, else 0
sixesCounted(diceValue) ==
    IF diceValue = 6 /\ room.consecutiveSixes < 2 THEN room.consecutiveSixes + 1 ELSE 0

\* the rules of the counter for the rolls, end of turn, bust and win
C20_CounterRules ==
    /\ room'.consecutiveSixes \in 0..2
    /\ HumanRollStep => room'.consecutiveSixes = sixesCounted(response'.diceValue)
    /\ BotRollStep
          => \E d \in DiceValues :
                /\ botPlay(d)
                /\ room'.consecutiveSixes = sixesCounted(d)
    /\ (Accepted("endTurn") \/ BotPassStep) => room'.consecutiveSixes = 0
    /\ (room.gameState = "playing" /\ room'.gameState = "finished")
          => room'.consecutiveSixes = 0

\* the turn has come to another player
TurnChanged ==
    /\ room'.gameState = "playing"
    /\ hasCurrentPlayer(room', players')
    /\ players'[room'.currentPlayerIndex + 1].playerId # currentPlayerId

C20_ConsecutiveSixes ==
    [][/\ C20_CounterRules
       /\ TurnChanged => room'.consecutiveSixes = 0]_vars

\* ------------------------------------------------------------------------
\* C21  diceValue is in 0..6 in every state, and in 1..6 whenever
\* hasRolledDice is true; a move request is never valid against a
\* diceValue of 0.
\* ------------------------------------------------------------------------
C21_DiceValueRange ==
    roomExists
    => /\ room.diceValue \in 0..6
       /\ room.hasRolledDice => room.diceValue \in 1..6
       /\ \A p \in PlayerIds, t \in TokenIdInputs :
             canMoveToken(room, players, p, t, room.diceValue).valid
                => room.diceValue \in 1..6

\* p1 has rolled a 3 and not moved yet
C21_Witness ==
    /\ Playing
    /\ response.op = "rollDice" /\ response.success /\ response.diceValue = 3
    /\ room.hasRolledDice /\ room.diceValue = 3
    /\ currentPlayerId = "p1"

\* ------------------------------------------------------------------------
\* C22  gameState only moves forward along waiting -> playing -> finished:
\* it becomes playing only by an accepted startGame in a waiting room of 2
\* to 4 players, which puts every token on position -1, currentPlayerIndex
\* on 0 and the dice to not rolled; it becomes finished only by a move that
\* finishes the mover's last token; no step takes it back.
\* ------------------------------------------------------------------------
\* startGame was accepted and has set up the game
GameStarted ==
    /\ Accepted("startGame") /\ response'.success
    /\ room.gameState = "waiting"
    /\ Len(players) \in 2..4
    /\ Len(players') = Len(players)
    /\ \A i \in 1..Len(players') :
          /\ Len(players'[i].tokens) = 4
          /\ \A k \in 1..4 :
                /\ players'[i].tokens[k].position = 0 - 1
                /\ players'[i].tokens[k].isHome
                /\ ~players'[i].tokens[k].isFinished
    /\ room'.currentPlayerIndex = 0
    /\ ~room'.hasRolledDice
    /\ room'.diceValue = 0

\* a move has finished the mover's last token
GameWon ==
    /\ MoveStep
    /\ room.gameState = "playing"
    /\ ~allAt57(players[currentIndex])
    /\ allAt57(players'[currentIndex])

C22_GameStateForward ==
    [][/\ room'.gameState # room.gameState
          => \/ room'.gameState = "playing" /\ GameStarted
             \/ room'.gameState = "finished" /\ GameWon
       /\ Accepted("startGame") => room'.gameState = "playing" /\ GameStarted]_vars

\* the game was started from the lobby of p1 and the bot
C22_Witness ==
    /\ Playing
    /\ response.op = "startGame" /\ response.success
    /\ Len(players) = 2
    /\ \A i \in 1..2 : players[i].tokens = InBase
    /\ room.currentPlayerIndex = 0 /\ ~room.hasRolledDice /\ room.diceValue = 0

\* ------------------------------------------------------------------------
\* C23  Bot choice: chooseBotMove returns null exactly when getValidMoves is
\* empty, the only valid token when there is one, and otherwise the first
\* token in getValidMoves order among those of maximum score; the score is
\* 50 for leaving the base, 100 for a destination outside the safe zones on
\* the track where some other player has exactly one token, 200 for the
\* destination 57, 30 + 5 * (position - 52) for a token in the home column
\* or distanceFromOwnStart / 2 for a token on the track, and 10 for landing
\* on a safe zone; the result is always in getValidMoves.
\* ------------------------------------------------------------------------
\* where a token on position p goes with s steps, NULL for nowhere
referencePosition(color, p, s) ==
    IF p = 0 - 1 THEN (IF s = 6 THEN START_POSITIONS[color] ELSE NULL)
    ELSE IF p >= 52 THEN (IF p + s <= 57 THEN p + s ELSE NULL)
    ELSE LET d == (p - START_POSITIONS[color] + 52) % 52
         IN  IF d + s <= 51 THEN (p + s) % 52
             ELSE IF 52 + (d + s - 52) <= 57 THEN 52 + (d + s - 52)
             ELSE NULL

\* twice the score of the claim for token n of ps[i] with the roll s
referenceScore2(ps, i, n, s) ==
    LET token == ps[i].tokens[n]
        p == token.position
        to == referencePosition(ps[i].color, p, s)
        d == (p - START_POSITIONS[ps[i].color] + 52) % 52
    IN  (IF p = 0 - 1 /\ s = 6 THEN 100 ELSE 0)
        + (IF /\ to \in 0..51 /\ to \notin SAFE_ZONES
              /\ \E j \in 1..Len(ps) :
                    /\ j # i
                    /\ Cardinality({m \in 1..Len(ps[j].tokens) :
                                       ps[j].tokens[m].position = to}) = 1
           THEN 200 ELSE 0)
        + (IF to = 57 THEN 400 ELSE 0)
        + (IF p >= 52 THEN 2 * (30 + 5 * (p - 52)) ELSE IF p >= 0 THEN d ELSE 0)
        + (IF to \in SAFE_ZONES THEN 20 ELSE 0)

C23_BotChoice ==
    (hasCurrentPlayer(room, players) /\ room.diceValue \in DiceValues)
    => LET i == currentIndex
           s == room.diceValue
           validMoves == getValidMoves(players, players[i], s)
           choice == chooseBotMove(players, players[i], s)
           refScore(k) == referenceScore2(players, i, validMoves[k] + 1, s)
       IN  /\ choice = NULL <=> Len(validMoves) = 0
           /\ Len(validMoves) = 1 => choice = validMoves[1]
           /\ Len(validMoves) >= 2
                => \E k \in 1..Len(validMoves) :
                      /\ choice = validMoves[k]
                      /\ \A j \in 1..Len(validMoves) : refScore(j) <= refScore(k)
                      /\ \A j \in 1..(k - 1) : refScore(j) < refScore(k)
           /\ choice # NULL => \E k \in 1..Len(validMoves) : validMoves[k] = choice

\* red rolled a 6 with two tokens on 50 and one in the base and moved:
\* the two tokens on 50 tie, and bringing out the third scores less
C23_Witness ==
    /\ steps = 1
    /\ response.op = "moveToken" /\ response.success
    /\ room.lastMove.playerId = "p1" /\ room.diceValue = 6
    /\ room.lastMove.fromPosition = 50 /\ room.lastMove.tokenId = 0
    /\ players[1].tokens[2].position = 50
    /\ players[1].tokens[3].position = 0 - 1


\* ------------------------------------------------------------------------
\* C24  Finishing dominates the bot's choice: whenever some valid move of
\*      the bot lands a token on 57, chooseBotMove returns a token whose move
\*      lands on 57, and the move botPlay then applies ends on 57, whatever
\*      captures, releases from the base or safe squares the other valid
\*      moves offer.
\* ------------------------------------------------------------------------
landing(i, tokenId) ==
    referencePosition(players[i].color, players[i].tokens[tokenId + 1].position,
                      room.diceValue)

FinishingMoveExists ==
    LET validMoves == getValidMoves(players, players[currentIndex], room.diceValue)
    IN  \E k \in 1..Len(validMoves) : landing(currentIndex, validMoves[k]) = 57

C24_FinishingDominates ==
    [][(BotMoveStep /\ FinishingMoveExists)
          => /\ landing(currentIndex,
                        chooseBotMove(players, players[currentIndex], room.diceValue)) = 57
             /\ room'.lastMove.toPosition = 57
             /\ room'.lastMove.playerId = currentPlayerId]_vars

\* the bot rolled a 4 with a token on 53 and a token on 32, four squares
\* behind a lone red token on 36: it finished the token instead of capturing
C24_Witness ==
    /\ steps = 1
    /\ response.op = "botPlay"
    /\ room.lastMove.playerId = "b1"
    /\ room.lastMove.fromPosition = 53 /\ room.lastMove.toPosition = 57
    /\ \E t \in 1..4 : players[2].tokens[t].position = 32
    /\ Cardinality({t \in 1..4 : players[1].tokens[t].position = 36}) = 1


\* ------------------------------------------------------------------------
\* C25  A late botPlay trigger is a safe no-op: a botPlay that runs when the
\*      room is not playing, or when the current player is missing or is not
\*      a bot, changes no field of the room and no token, and schedules
\*      nothing: the trigger it used up is the only change.
\* ------------------------------------------------------------------------
LateTrigger ==
    /\ roomExists
    /\ \/ room.gameState # "playing"
       \/ ~hasCurrentPlayer(room, players)
       \/ ~players[currentIndex].isBot

C25_LateTriggerNoOp ==
    [][(response'.op = "botPlay" /\ LateTrigger)
          => /\ room' = room
             /\ players' = players
             /\ roomExists' = roomExists
             /\ scheduled' = scheduled - 1]_vars

\* a botPlay ran while a human who had rolled was the current player: no
\* step of a bot leaves a human with rolled dice, so the trigger came late
C25_Witness ==
    /\ response.op = "botPlay"
    /\ Playing
    /\ hasCurrentPlayer(room, players)
    /\ ~players[currentIndex].isBot
    /\ room.hasRolledDice


\* ------------------------------------------------------------------------
\* C26  A duplicate botPlay trigger is a safe no-op: when the trigger of a
\*      step of the bot is delivered twice and the first delivery has
\*      handled the step (the roll, or the move), the second delivery rolls
\*      no dice, moves no token and does not advance the turn.
\* ------------------------------------------------------------------------
FirstDeliveryHandled == steps = 1 /\ response.op = "botPlay"

NoAdditionalStep ==
    /\ room'.diceValue = room.diceValue
    /\ room'.hasRolledDice = room.hasRolledDice
    /\ players' = players
    /\ room'.currentPlayerIndex = room.currentPlayerIndex

C26_DuplicateTriggerNoOp ==
    [][(FirstDeliveryHandled /\ response'.op = "botPlay") => NoAdditionalStep]_vars


\* ------------------------------------------------------------------------
\* C27  Move history is append-only and complete: every successful move of a
\*      token, by a human or by the bot, appends exactly one record to the
\*      room's moveHistory, with the player, the token, its position before
\*      the move and its position after it; no step changes or removes the
\*      records already there.
\* ------------------------------------------------------------------------
recordsMove(rec) ==
    /\ rec.playerId = currentPlayerId
    /\ rec.tokenId \in 0..3
    /\ rec.fromPosition = players[currentIndex].tokens[rec.tokenId + 1].position
    /\ rec.toPosition = players'[currentIndex].tokens[rec.tokenId + 1].position
    /\ rec.fromPosition # rec.toPosition

historyKept ==
    /\ Len(room'.moveHistory) >= Len(room.moveHistory)
    /\ SubSeq(room'.moveHistory, 1, Len(room.moveHistory)) = room.moveHistory

C27_MoveHistory ==
    [][/\ roomExists' => historyKept
       /\ MoveStep => /\ Len(room'.moveHistory) = Len(room.moveHistory) + 1
                      /\ recordsMove(room'.moveHistory[Len(room'.moveHistory)])
       /\ (roomExists' /\ ~MoveStep) => room'.moveHistory = room.moveHistory]_vars


\* ------------------------------------------------------------------------
\* C28  calculateNewPosition agrees with the reference definition for every
\*      colour, every position from the base to the last home square and
\*      every dice value: the start square from the base on a 6 only; p + s
\*      in the home column when that is at most 57; on the track (p + s) mod
\*      52 while the distance from the start stays within 51, else the home
\*      square 52 + (d + s - 52) when that is at most 57; no move otherwise.
\*      The move moveToken applies ends on that square.
\* ------------------------------------------------------------------------
C28_NewPosition ==
    [][steps = 0
         => LET color == players[currentIndex].color
                s == room.diceValue
            IN  /\ \A t \in 1..4 :
                      calculateNewPosition(color, players[currentIndex].tokens[t].position, s)
                        = referencePosition(color, players[currentIndex].tokens[t].position, s)
                /\ response'.success
                     => room'.lastMove.toPosition
                          = referencePosition(color, room'.lastMove.fromPosition, s)]_vars

\* the yellow token on 24, one square before yellow's home entry 25, moved
\* 4 and stands on the third home square
C28_Witness ==
    /\ steps = 1
    /\ response.op = "moveToken" /\ response.success
    /\ room.lastMove.playerId = "p4"
    /\ players[4].color = "yellow"
    /\ room.lastMove.fromPosition = 24 /\ room.lastMove.toPosition = 54
    /\ players[4].tokens[1].position = 54


\* ------------------------------------------------------------------------
\* C29  No deadlock at engine level: in every playing state reached through
\*      startGame, rolls, moves, ends of turn and botPlay, a request of the
\*      current player is accepted: a roll if the dice have not been rolled;
\*      otherwise the move of some token if getValidMoves is not empty;
\*      otherwise endTurn.
\* ------------------------------------------------------------------------
moveAccepted(tokenId) ==
    /\ canMoveToken(room, players, currentPlayerId, tokenId, room.diceValue).valid
    /\ moveToken(players, players[currentIndex], tokenId, room.diceValue).ok

C29_NoDeadlock ==
    Playing
      => /\ hasCurrentPlayer(room, players)
         /\ IF ~room.hasRolledDice
            THEN canRollDice(room, players, currentPlayerId).valid
            ELSE IF Len(getValidMoves(players, players[currentIndex], room.diceValue)) > 0
            THEN \E tokenId \in 0..3 : moveAccepted(tokenId)
            ELSE canEndTurn(room, players, currentPlayerId).valid

\* a player rolled a 6 that no token can use: the turn can only be ended,
\* and endTurn is accepted
C29_Witness ==
    /\ Playing
    /\ response.op = "rollDice" /\ response.success
    /\ room.hasRolledDice /\ room.diceValue = 6
    /\ Len(getValidMoves(players, players[currentIndex], room.diceValue)) = 0
    /\ canEndTurn(room, players, currentPlayerId).valid


\* ------------------------------------------------------------------------
\* C30  Bot turns always progress: in every state reached through startGame,
\*      rolls, moves, ends of turn, botPlay and leaveRoom in which the game
\*      is playing and the current player is a bot, a botPlay is scheduled,
\*      so that under fair delivery every turn of a bot ends.
\* ------------------------------------------------------------------------
BotToPlay == Playing /\ hasCurrentPlayer(room, players) /\ players[currentIndex].isBot

C30_BotTurnsProgress == BotToPlay => scheduled > 0


\* ------------------------------------------------------------------------
\* C31  The scheduling code never creates duplicate bot triggers: when every
\*      roll, move and end-turn request carries the id of a human player,
\*      at most one botPlay is scheduled for the room at any time, and none
\*      while the current player is a human.
\* ------------------------------------------------------------------------
HumanToPlay == roomExists /\ hasCurrentPlayer(room, players) /\ ~players[currentIndex].isBot

C31_OneTrigger ==
    /\ scheduled <= 1
    /\ HumanToPlay => scheduled = 0

\* a human moved on a 6 and keeps the turn: nothing is scheduled
C31_Witness ==
    /\ response.op = "moveToken" /\ response.success
    /\ Playing /\ HumanToPlay
    /\ room.diceValue = 6 /\ ~room.hasRolledDice
    /\ room.lastMove.playerId = currentPlayerId
    /\ scheduled = 0


\* ------------------------------------------------------------------------
\* C32  A main-track square outside the safe zones holds tokens of at most
\*      one player: a move applied to a roster in which that is so leaves it
\*      so, as it is when every token is in the base after startGame; hence
\*      a move sends at most one token back to the base.
\* ------------------------------------------------------------------------
tokensSentToBase ==
    {<<i, k>> \in (1..Len(players)) \X (1..4) :
        /\ players[i].tokens[k].position \in 0..51
        /\ players'[i].tokens[k].position = 0 - 1}

C32_OneOwnerPerSquare ==
    [][(oneOwnerPerSquare(players) /\ response'.op = "moveToken" /\ response'.success)
          => /\ oneOwnerPerSquare(players')
             /\ Cardinality(tokensSentToBase) <= 1]_vars

\* red moved from 2 to 4, where a single blue token stood: the blue token is
\* in the base and red has the square to itself
C32_Witness ==
    /\ steps = 1
    /\ response.op = "moveToken" /\ response.success /\ response.captured
    /\ room.lastMove.playerId = "p1"
    /\ room.lastMove.fromPosition = 2 /\ room.lastMove.toPosition = 4
    /\ \A k \in 1..4 : players[2].tokens[k].position # 4
                       /\ players[3].tokens[k].position # 4


\* ------------------------------------------------------------------------
\* C33  At most one player has a block (two or more tokens) on a main-track
\*      square: a move applied to a roster in which that is so leaves it so,
\*      as it is when every token is in the base after startGame.  So the
\*      one blockingPlayerId hasBlock returns never hides a block of another
\*      player behind a block of the player asking.
\* ------------------------------------------------------------------------
occupiedSquares(ps) ==
    {ps[j].tokens[k].position : j \in 1..Len(ps), k \in 1..4} \cap (0..51)

noHiddenBlock(ps) ==
    \A square \in occupiedSquares(ps) :
        \E first \in {hasBlock(ps, square, NoPlayer)} :
            first.hasBlock => ~hasBlock(ps, square, first.blockingPlayerId).hasBlock

C33_OneBlockPerSquare ==
    [][(oneBlockPerSquare(players) /\ response'.op = "moveToken" /\ response'.success)
          => /\ oneBlockPerSquare(players')
             /\ noHiddenBlock(players')]_vars

\* blue moved a second token onto the safe square 8 and has a block there,
\* beside a single token of red
C33_Witness ==
    /\ steps = 1
    /\ response.op = "moveToken" /\ response.success
    /\ room.lastMove.playerId = "p2" /\ room.lastMove.toPosition = 8
    /\ Len(tokensAtPosition(players[2], 8)) = 2
    /\ Len(tokensAtPosition(players[1], 8)) = 1
    /\ hasBlock(players, 8, NoPlayer).blockingPlayerId = "p2"


\* ------------------------------------------------------------------------
\* C34  Exact progress: with the progress of a token its distance from the
\*      start square of its colour on the track, and its position in the
\*      home column, every applied move of a token outside the base raises
\*      its progress by exactly the dice value, a token leaving the base has
\*      progress 0, no move takes a track token past its home entry along
\*      the track, and no roll overshoots the finish from the track.
\* ------------------------------------------------------------------------
progress(color, position) ==
    IF position >= 52 THEN position
    ELSE (position - START_POSITIONS[color] + BOARD_SIZE) % BOARD_SIZE

C34_ExactProgress ==
    [][steps = 0
         => LET color == players[currentIndex].color
                s == room.diceValue
                m == room'.lastMove
            IN  /\ \A t \in 1..4 :
                      players[currentIndex].tokens[t].position \in 0..51
                        => calculateNewPosition(color,
                              players[currentIndex].tokens[t].position, s) # NULL
                /\ (response'.success /\ m.fromPosition = 0 - 1)
                      => m.toPosition \in 0..51 /\ progress(color, m.toPosition) = 0
                /\ (response'.success /\ m.fromPosition # 0 - 1)
                      => /\ progress(color, m.toPosition)
                              = progress(color, m.fromPosition) + s
                         /\ players'[currentIndex].tokens[m.tokenId + 1].position
                              = m.toPosition]_vars

\* the blue token on 38, blue's home entry, moved 1 and stands on the first
\* square of the home column
C34_Witness ==
    /\ steps = 1
    /\ response.op = "moveToken" /\ response.success
    /\ room.lastMove.playerId = "p2" /\ players[2].color = "blue"
    /\ room.lastMove.fromPosition = 38 /\ room.lastMove.toPosition = 52


\* ------------------------------------------------------------------------
\* C35  Bounded turn: in a playing game of two or more players, no player
\*      makes more than 3 successful dice rolls in a row, and no player
\*      makes more than 3 token moves in a row, before currentPlayerIndex
\*      changes or the game finishes.
\* ------------------------------------------------------------------------
C35_BoundedTurn ==
    (roomExists /\ Len(players) >= 2 /\ room.gameState # "waiting")
      => inARow.rolls <= 3 /\ inARow.moves <= 3

\* a player who had rolled two 6s and moved twice rolled a third 6: the
\* third roll in a row ended the turn
C35_Witness ==
    /\ Playing /\ Len(players) >= 2
    /\ response.op \in {"rollDice", "botPlay"} /\ response.success
    /\ inARow.rolls = 3 /\ inARow.moves = 2 /\ inARow.over
    /\ room.consecutiveSixes = 0 /\ ~room.hasRolledDice


clientOnly(player, diceValue, tokenId) ==
    /\ includes(clientGetValidMoves(player, diceValue), tokenId)
    /\ ~includes(getValidMoves(players, player, diceValue), tokenId)

C37_ClientSuperset ==
    \A i \in 1..Len(players) :
        \E server \in {getValidMoves(players, players[i], room.diceValue)},
           client \in {clientGetValidMoves(players[i], room.diceValue)} :
            \A k \in 1..Len(server) :
                /\ includes(client, server[k])
                /\ clientCalculateNewPosition(players[i].color,
                       players[i].tokens[server[k] + 1].position, room.diceValue)
                     = calculateNewPosition(players[i].color,
                          players[i].tokens[server[k] + 1].position, room.diceValue)

\* the server refused a move of a token that the client offers, while it
\* accepts the move of another token, which the client offers too
C37_Witness ==
    /\ steps = 1
    /\ response.op = "moveToken" /\ ~response.success
    /\ \E tokenId \in 0..3 : clientOnly(players[currentIndex], room.diceValue, tokenId)
    /\ \E tokenId \in 0..3 :
          /\ includes(getValidMoves(players, players[currentIndex], room.diceValue), tokenId)
          /\ includes(clientGetValidMoves(players[currentIndex], room.diceValue), tokenId)


\* ------------------------------------------------------------------------
\* C38  The client never strands the player: whenever the current human
\*      player has rolled, either some token the client's getValidMoves
\*      lists is accepted by the server's canMoveToken, or the client's
\*      canEndTurn is true and the server accepts endTurn; in particular the
\*      client's canEndTurn is true whenever the server's canEndTurn is
\*      valid.
\* ------------------------------------------------------------------------
HumanHasRolled == Playing /\ HumanToPlay /\ room.hasRolledDice

clientCanMove ==
    \E tokenId \in 0..3 :
        /\ includes(clientGetValidMoves(players[currentIndex], room.diceValue), tokenId)
        /\ canMoveToken(room, players, currentPlayerId, tokenId, room.diceValue).valid

clientCanPass ==
    /\ clientCanEndTurn(players[currentIndex], room.diceValue, room.hasRolledDice)
    /\ canEndTurn(room, players, currentPlayerId).valid

C38_NeverStranded ==
    HumanHasRolled =>
        /\ clientCanMove \/ clientCanPass
        /\ canEndTurn(room, players, currentPlayerId).valid
             => clientCanEndTurn(players[currentIndex], room.diceValue, room.hasRolledDice)


\* ------------------------------------------------------------------------
\* C39  Capture is the bot's first priority: whenever at least one valid
\*      move of the bot would capture an opponent token, chooseBotMove
\*      returns a capturing move, ahead of releasing a token on a 6 and of
\*      moving the furthest-advanced token, and botPlay's move sends an
\*      opponent token back to its base.
\* ------------------------------------------------------------------------
wouldCapture(tokenId) ==
    moveToken(players, players[currentIndex], tokenId, room.diceValue).captured

CapturingMoveExists ==
    LET validMoves == getValidMoves(players, players[currentIndex], room.diceValue)
    IN  \E k \in 1..Len(validMoves) : wouldCapture(validMoves[k])

====
